---- MODULE Spec2Model ----
(***************************************************************************)
(* Execution safety and sandboxing of the LIA backend: the command gate    *)
(* and process sandbox of CommandExecutor._execute_command, the path guard *)
(* CommandExecutor._normalize_path with the file handlers that use it, and *)
(* the generated-script path of PythonExecutor; and of main.py the rate    *)
(* limiter, the intent cache and the request entry points.                 *)
(*                                                                         *)
(* Python str values are TLA+ strings; Len, SubSeq, Head, Tail and \o act  *)
(* on them character by character.                                         *)
(***************************************************************************)
EXTENDS Integers, Sequences, FiniteSets, TLC

VARIABLES
    pc,         \* position of the execute call: "idle", "start", "cmd_wait", "py_wait",
                \* "blocked" (inside a system call that has not returned), "done"
    intent,     \* the CommandIntent being executed
    child,      \* the child process of the request, if one was started
    result,     \* the CommandResult returned for the request
    environ,    \* os.environ of the server process (variable names)
    proc_cwd,   \* working directory of the server process
    allowed_base_dir,  \* CommandExecutor.allowed_base_dir
    touched,    \* filesystem accesses made by the handler: [op, path]
    norm,       \* outcome of the last _normalize_path call
    generated,  \* outcome of the content generator call made for the request, if any
    now,        \* time.time(), in whole seconds
    rate_limit_buckets,  \* _rate_limit_buckets: client_id -> deque of timestamps
    calls,      \* the _allow_request calls made so far: [client_id, at, admitted]
    store,      \* intent_cache.store: the OrderedDict as a sequence of [key, ts, value]
    cache_op,   \* the last operation on intent_cache and what it returned
    recency,    \* the cache keys in the order of their last successful get or set
    set_at,     \* key -> time of the last set of the key
    request,    \* the HTTP request being served and the work done for it
    tasks,      \* the requests handled concurrently on the event loop, one per task
    command_executor,  \* the attributes of the shared CommandExecutor that requests write
    trace,      \* parser invocations and cache removals so far: [ev, key, at]
    loop_held_by  \* the task that holds the event loop inside subprocess.run, 0 if none

executor_vars ==
    <<pc, intent, child, result, environ, proc_cwd, allowed_base_dir, touched, norm, generated>>

limiter_vars == <<rate_limit_buckets, calls>>

cache_vars == <<store, cache_op, recency, set_at>>

loop_vars == <<tasks, command_executor, trace, loop_held_by>>

server_vars == <<now, limiter_vars, cache_vars, request, loop_vars>>

vars == <<executor_vars, server_vars>>

(***************************************************************************)
(* Bounds of the model.                                                    *)
(***************************************************************************)
\* A command is built from at most MaxFrags fragments of CommandFragments.
MaxFrags == 2

\* A raw path is built from at most MaxPathFrags fragments of PathFragments.
MaxPathFrags == 2

(***************************************************************************)
(* str helpers                                                             *)
(***************************************************************************)
UpperCase == "ABCDEFGHIJKLMNOPQRSTUVWXYZ"
LowerCase == "abcdefghijklmnopqrstuvwxyz"

Char(s, i) == SubSeq(s, i, i)

\* str.lower() on one character (ASCII).
LowerChar(c) ==
    IF \E i \in 1..Len(UpperCase) : Char(UpperCase, i) = c
    THEN Char(LowerCase, CHOOSE i \in 1..Len(UpperCase) : Char(UpperCase, i) = c)
    ELSE c

\* str.lower() on the characters i..j of s.
RECURSIVE LowerRange(_, _, _)
LowerRange(s, i, j) ==
    IF i > j THEN ""
    ELSE IF i = j THEN LowerChar(Char(s, i))
    ELSE LET m == (i + j) \div 2 IN LowerRange(s, i, m) \o LowerRange(s, m + 1, j)

\* str.lower()
Lower(s) == LowerRange(s, 1, Len(s))

\* str.upper() on one character (ASCII).
UpperChar(c) ==
    IF \E i \in 1..Len(LowerCase) : Char(LowerCase, i) = c
    THEN Char(UpperCase, CHOOSE i \in 1..Len(LowerCase) : Char(LowerCase, i) = c)
    ELSE c

\* The characters of s from i on, in upper case.
RECURSIVE UpperFrom(_, _)
UpperFrom(s, i) == IF i > Len(s) THEN "" ELSE UpperChar(Char(s, i)) \o UpperFrom(s, i + 1)

\* str(command_type) of a member of the enumeration CommandType(str, Enum): the
\* class name and the member name, which is the value in upper case.
EnumStr(command_type) == "CommandType." \o UpperFrom(command_type, 1)

\* sub in s on str
Contains(s, sub) ==
    \E i \in 1..(Len(s) - Len(sub) + 1) : SubSeq(s, i, i + Len(sub) - 1) = sub

\* x in l on a list
InList(x, l) == \E i \in 1..Len(l) : l[i] = x

Whitespace == {" ", "\t", "\n"}

\* Smallest element of a set of positive integers, 0 for the empty set.
Min(S) == IF S = {} THEN 0 ELSE CHOOSE x \in S : \A y \in S : x <= y

\* str.find(sub, start) with 1-based indices: 0 if sub does not occur at or after from.
Find(s, sub, from) ==
    Min({i \in from..(Len(s) - Len(sub) + 1) : SubSeq(s, i, i + Len(sub) - 1) = sub})

\* str.split(sep) for a non-empty separator, on the text from index from on;
\* SplitAt is given the index i of the next separator (0: none).
RECURSIVE SplitFrom(_, _, _), SplitAt(_, _, _, _)
SplitAt(s, sep, from, i) ==
    IF i = 0 THEN <<SubSeq(s, from, Len(s))>>
    ELSE <<SubSeq(s, from, i - 1)>> \o SplitFrom(s, sep, i + Len(sep))

SplitFrom(s, sep, from) == SplitAt(s, sep, from, Find(s, sep, from))

SplitOn(s, sep) == SplitFrom(s, sep, 1)

\* str.split() without arguments, from index from on: runs of whitespace separate
\* the tokens.  b is the index where the next token begins, e the index of the
\* whitespace that ends it (0: none).
RECURSIVE SplitWsFrom(_, _), SplitWsToken(_, _), SplitWsEnd(_, _, _)
SplitWsEnd(s, b, e) ==
    IF e = 0 THEN <<SubSeq(s, b, Len(s))>>
    ELSE <<SubSeq(s, b, e - 1)>> \o SplitWsFrom(s, e)

SplitWsToken(s, b) ==
    IF b = 0 THEN <<>>
    ELSE SplitWsEnd(s, b, Min({i \in b..Len(s) : Char(s, i) \in Whitespace}))

SplitWsFrom(s, from) ==
    SplitWsToken(s, Min({i \in from..Len(s) : Char(s, i) \notin Whitespace}))

Split(s) == SplitWsFrom(s, 1)

\* Index of the first character of s outside Whitespace, Len(s)+1 if none.
FirstNonWs(s) ==
    IF \E i \in 1..Len(s) : Char(s, i) \notin Whitespace
    THEN CHOOSE i \in 1..Len(s) :
            /\ Char(s, i) \notin Whitespace
            /\ \A j \in 1..(i - 1) : Char(s, j) \in Whitespace
    ELSE Len(s) + 1

\* Index of the last character of s outside Whitespace, 0 if none.
LastNonWs(s) ==
    IF \E i \in 1..Len(s) : Char(s, i) \notin Whitespace
    THEN CHOOSE i \in 1..Len(s) :
            /\ Char(s, i) \notin Whitespace
            /\ \A j \in (i + 1)..Len(s) : Char(s, j) \in Whitespace
    ELSE 0

\* str.strip()
Strip(s) == SubSeq(s, FirstNonWs(s), LastNonWs(s))

\* s[:n]
Prefix(s, n) == SubSeq(s, 1, IF n < Len(s) THEN n ELSE Len(s))

\* c * n
RECURSIVE Rep(_, _)
Rep(c, n) ==
    IF n = 0 THEN ""
    ELSE LET h == Rep(c, n \div 2)
         IN  IF n % 2 = 0 THEN h \o h ELSE h \o h \o c

(***************************************************************************)
(* CommandExecutor._execute_command: the command gate                      *)
(***************************************************************************)
safe_commands ==
    << "ls", "pwd", "cd", "mkdir", "rmdir", "touch", "cat", "head", "tail", "less", "more",
       "wc", "sort", "uniq", "grep", "find", "locate", "which", "whereis", "file", "stat",
       "du", "df", "mount", "umount", "chmod", "chown", "chgrp", "ln", "readlink", "awk",
       "sed", "cut", "paste", "join", "diff", "cmp", "comm", "tr", "expand", "unexpand",
       "fold", "fmt", "pr", "column", "nl", "tac", "rev", "base64", "hexdump", "od", "uname",
       "hostname", "whoami", "id", "groups", "who", "w", "users", "last", "lastlog", "uptime",
       "date", "cal", "time", "env", "printenv", "set", "ps", "top", "htop", "free", "vmstat",
       "iostat", "sar", "netstat", "ss", "lsof", "fuser", "lscpu", "lsmem", "ping",
       "traceroute", "nslookup", "dig", "host", "curl", "wget", "nc", "telnet", "ssh", "scp",
       "rsync", "ifconfig", "ip", "route", "arp", "iptables", "ufw", "kill", "killall",
       "pkill", "pgrep", "jobs", "bg", "fg", "nohup", "screen", "tmux", "at", "crontab",
       "systemctl", "service", "initctl", "tar", "gzip", "gunzip", "bzip2", "bunzip2", "xz",
       "unxz", "zip", "unzip", "7z", "rar", "unrar", "cpio", "ar", "zipinfo", "apt",
       "apt-get", "apt-cache", "dpkg", "yum", "dnf", "rpm", "pacman", "brew", "pip", "npm",
       "yarn", "gem", "cargo", "go", "maven", "gradle", "git", "svn", "hg", "make", "cmake",
       "gcc", "g++", "clang", "python", "python3", "node", "npm", "yarn", "java", "javac",
       "javadoc", "mvn", "gradle", "docker", "docker-compose", "kubectl", "helm", "terraform",
       "ansible", "tail", "journalctl", "dmesg", "syslog", "logger", "watch", "strace",
       "ltrace", "tcpdump", "wireshark", "tcpflow", "ngrep", "iftop", "iotop", "nethogs",
       "man", "info", "help", "type", "alias", "history", "clear", "reset", "stty", "tty",
       "mesg", "write", "wall", "talk", "finger", "whois", "wget", "curl", "lynx", "links",
       "elinks", "w3m", "tree", "exa", "bat", "fd", "ripgrep", "bc", "dc", "factor", "primes",
       "seq", "shuf", "random", "expr", "let", "yes", "no", "true", "false", "echo", "printf",
       "sleep", "wait", "timeout", "nice", "renice", "ionice", "taskset", "chrt", "flock",
       "fuser", "lsof" >>
dangerous_patterns ==
    << "rm ", "rm -", "del ", "format ", "mkfs", "dd if=", "dd of=", "shutdown", "reboot",
       "halt", "poweroff", "init 0", "init 6", "kill -9", "killall -9", "pkill -9",
       "chmod 777", "chmod +s", "chown root", "passwd", "useradd", "userdel", "groupadd",
       "groupdel", "usermod", "groupmod", "visudo", "sudo ", "su ", "sudoers", "nc -l",
       "netcat -l", "python -m http.server", "python3 -m http.server", "php -S", "ruby -run",
       "perl -MIO::Socket", "telnetd", "sshd", "ftp", "tftp", "mount -o", "umount -f",
       "fdisk", "parted", "mkfs", "fsck", "badblocks", "dd if=/dev/", "dd of=/dev/",
       "cat > /dev/", "echo > /dev/", "kill -STOP", "kill -CONT", "renice -20", "nice -20",
       "ionice -c 1", "taskset -c 0", "chrt -f 99", "strace -e trace", "ltrace -e",
       "apt remove", "apt purge", "yum remove", "dnf remove", "pacman -R", "brew uninstall",
       "pip uninstall", "npm uninstall", "gem uninstall", "cargo uninstall", "make install",
       "make uninstall", "cmake --install", "docker run --privileged",
       "docker exec --privileged", "kubectl delete", "helm uninstall", "terraform destroy",
       "; rm", "; del", "; format", "; shutdown", "; reboot", "&& rm", "&& del", "|| rm",
       "|| del", "| rm", "| del", "> /dev/", ">> /dev/", "2> /dev/", "bash -c", "sh -c",
       "zsh -c", "fish -c", "python -c", "perl -e", "ruby -e", "node -e", "php -r", "lua -e",
       "awk '{", "sed '", "eval", "exec", "export PATH=", "export LD_LIBRARY_PATH=",
       "export PYTHONPATH=", "alias rm=", "unalias", "hash -r", "builtin", "command",
       "type -a", "declare -f" >>

\* dict.get(key, default)
Get(params, key, default) == IF key \in DOMAIN params THEN params[key] ELSE default

\* A parameter value that is not a str (JSON null, a number, a list): parameters is
\* Dict[str, Any] and is filled from the JSON the intent parser receives. No text of
\* the model equals it.
None == "<None>"

\* isinstance(value, str)
IsStr(value) == value # None

\* Index of the first deny-list pattern contained in the case-folded command,
\* 0 if there is none: the loop for pattern in dangerous_patterns.
FirstPatternIn(command_lower) ==
    Min({i \in 1..Len(dangerous_patterns) : Contains(command_lower, dangerous_patterns[i])})

FirstDangerous(command) == FirstPatternIn(Lower(command))

\* Variant of use_shell that overlooks the chaining operator "&&".
UseShellWithoutAnd(command) ==
    \/ Contains(command, "|")
    \/ Contains(command, ">")

\* use_shell = "|" in command or ">" in command or "&&" in command or "||" in command
use_shell(command) ==
    \/ Contains(command, "|")
    \/ Contains(command, ">")
    \/ Contains(command, "&&")
    \/ Contains(command, "||")

\* timeout= of the two subprocess.run calls
ShellTimeout == 15
LiteralTimeout == 10

\* Length beyond which stdout is cut in the success message.
MessageOutputCap == 2000

TruncationMarker == "\n\n... (output truncated, showing first 2000 characters)"

\* os.path.expanduser("~") / Path.home(): the user's home directory.
HomeDir == <<"home", "user">>

\* Variant of the gate that consults the deny-list only.
VerdictDenyListOnly(command) ==
    IF Split(command) = <<>> THEN "empty"
    ELSE IF FirstDangerous(command) # 0 THEN "blocked"
    ELSE "pass"

\* The checks of the gate on a raw command and its tokens cmd_parts.
GateChecks(command, cmd_parts) ==
    IF cmd_parts = <<>> THEN "empty"
    ELSE IF ~InList(cmd_parts[1], safe_commands) THEN "not_allowed"
    ELSE IF FirstDangerous(command) # 0 THEN "blocked"
    ELSE "pass"

\* The gate's verdict on a raw command: "empty", "not_allowed", "blocked" or "pass".
Verdict(command) == GateChecks(command, Split(command))

NoChild ==
    [launched |-> FALSE, kind |-> "none", args |-> <<>>, script |-> "", timeout |-> 0,
     env |-> {}, cwd |-> <<>>, expired |-> FALSE, alive |-> FALSE, killed |-> FALSE]

NoResult == [returned |-> FALSE]

NoData == [shape |-> "none"]

\* Environment handed to subprocess.run: no env= argument, the child inherits os.environ.
CommandChildEnv(parent_env) == parent_env

\* The child subprocess.run starts for a command that passed the gate.
CommandChild(command, parent_env) ==
    IF use_shell(command)
    THEN [launched |-> TRUE, kind |-> "shell", args |-> <<command>>, script |-> "",
          timeout |-> ShellTimeout, env |-> CommandChildEnv(parent_env), cwd |-> HomeDir,
          expired |-> FALSE, alive |-> TRUE, killed |-> FALSE]
    ELSE [launched |-> TRUE, kind |-> "argv", args |-> Split(command), script |-> "",
          timeout |-> LiteralTimeout, env |-> CommandChildEnv(parent_env), cwd |-> HomeDir,
          expired |-> FALSE, alive |-> TRUE, killed |-> FALSE]

\* Variant of the denial that is reported as a result of the fallback script path.
DeniedInPythonMode(kind, pattern) ==
    [returned |-> TRUE, success |-> FALSE,
     message |-> [kind |-> kind, pattern |-> pattern, stdout |-> "", stderr |-> ""],
     data |-> NoData, command_type |-> "execute_command",
     python_mode |-> TRUE, python_code |-> ""]

\* CommandResult of a denial by the gate.
Denied(kind, pattern) ==
    [returned |-> TRUE, success |-> FALSE,
     message |-> [kind |-> kind, pattern |-> pattern, stdout |-> "", stderr |-> ""],
     data |-> NoData, command_type |-> "execute_command",
     python_mode |-> FALSE, python_code |-> ""]

\* The stdout text placed in the message of a command that exited with code 0.
ShownStdout(stdout) ==
    IF Len(stdout) > MessageOutputCap
    THEN Prefix(stdout, MessageOutputCap) \o TruncationMarker
    ELSE stdout

\* The message built from the stripped streams of a command that ran to completion.
CompletedMessage(returncode, stdout, stderr) ==
    IF returncode = 0
    THEN [kind |-> IF stdout # "" THEN "ok_output" ELSE "ok_no_output",
          pattern |-> "", stdout |-> ShownStdout(stdout), stderr |-> ""]
    ELSE [kind |-> "failed", pattern |-> "", stdout |-> stdout, stderr |-> stderr]

\* CommandResult built from the stripped streams of a command that ran to completion.
CompletedResult(command, returncode, stdout, stderr) ==
    [returned |-> TRUE, success |-> (returncode = 0),
     message |-> CompletedMessage(returncode, stdout, stderr),
     data |-> [shape |-> "command", stdout |-> stdout, stderr |-> stderr,
               returncode |-> returncode, command |-> command],
     command_type |-> "execute_command", python_mode |-> FALSE, python_code |-> ""]

\* CommandResult of a command that ran to completion.
Completed(command, returncode, raw_stdout, raw_stderr) ==
    CompletedResult(command, returncode, Strip(raw_stdout), Strip(raw_stderr))

\* Variant of the timeout branch that returns what the child had printed so far.
TimedOutWithPartialOutput(command) == Completed(command, 0, "partial output", "")

\* CommandResult of except subprocess.TimeoutExpired.
TimedOut(command) ==
    [returned |-> TRUE, success |-> FALSE,
     message |-> [kind |-> "timeout", pattern |-> "", stdout |-> "", stderr |-> ""],
     data |-> NoData, command_type |-> "execute_command",
     python_mode |-> FALSE, python_code |-> ""]

\* CommandResult of except Exception around subprocess.run (the program cannot be started).
SpawnFailed(command) ==
    [returned |-> TRUE, success |-> FALSE,
     message |-> [kind |-> "error", pattern |-> "", stdout |-> "", stderr |-> ""],
     data |-> NoData, command_type |-> "execute_command",
     python_mode |-> FALSE, python_code |-> ""]

(***************************************************************************)
(* Inputs                                                                  *)
(***************************************************************************)
\* Pieces of raw command text; a command is up to MaxFrags of them joined by " ".
CommandFragments ==
    {"", "ls", "LS", "kill", "rm", "pacman", "-la", "-STOP 1", "-9 1", "-R pkg",
     "-rf /", "| grep foo", "> out.txt", "&& pwd", "|| pwd", "ls\t-a", "| sh"}

RECURSIVE JoinWith(_, _)
JoinWith(parts, sep) ==
    IF parts = <<>> THEN ""
    ELSE IF Len(parts) = 1 THEN parts[1]
    ELSE parts[1] \o sep \o JoinWith(Tail(parts), sep)

Commands ==
    {JoinWith(fs, " ") : fs \in UNION {[1..n -> CommandFragments] : n \in 0..MaxFrags}}

\* os.environ of the server: with and without the provider key of config.py.
Environs == {{"PATH", "HOME"}, {"PATH", "HOME", "OPENROUTER_API_KEY"}}

\* Commands that also arrive under a request text holding a fallback keyword.
KeywordCommands == {"", "rm -rf /", "kill -9 1", "LS -la", "ls -la"}

\* Request texts of the intents whose command parameter is not a str.
FailedRequests ==
    {"count the lines of notes.txt", "compare a.txt and b.txt", "hesabla 2+2",
     "PARSE the log", "show it", "a summary please"}

CommandIntents ==
    {[command_type |-> "execute_command", parameters |-> [command |-> c],
      original_message |-> "run " \o c] : c \in Commands}
    \cup {[command_type |-> "execute_command", parameters |-> [command |-> c],
           original_message |-> "calculate: " \o c] : c \in KeywordCommands}
    \cup {[command_type |-> "execute_command", parameters |-> [command |-> None],
           original_message |-> m] : m \in FailedRequests}

(***************************************************************************)
(* CommandExecutor.execute, intent EXECUTE_COMMAND                         *)
(***************************************************************************)
\* _execute_command up to the blocking subprocess.run.
ExecuteCommandStart ==
    /\ pc = "start"
    /\ intent.command_type = "execute_command"
    /\ IsStr(Get(intent.parameters, "command", ""))
    /\ \E command \in {Get(intent.parameters, "command", "")} :
       \E v \in {Verdict(command)} :
           \/ /\ v # "pass"
              /\ result' = CASE v = "empty" -> Denied("empty", "")
                             [] v = "not_allowed" -> Denied("not_allowed", "")
                             [] v = "blocked" ->
                                  Denied("blocked", dangerous_patterns[FirstDangerous(command)])
              /\ pc' = "done"
              /\ UNCHANGED child
           \/ /\ v = "pass"
              /\ child' = CommandChild(command, environ)
              /\ pc' = "cmd_wait"
              /\ UNCHANGED result
           \/ /\ v = "pass"
              /\ result' = SpawnFailed(command)
              /\ pc' = "done"
              /\ UNCHANGED child
    /\ UNCHANGED <<intent, environ, proc_cwd, allowed_base_dir, touched, norm, generated>>
    /\ UNCHANGED server_vars

\* child.timeout seconds of wall-clock time have passed and the child is still running.
TimeoutExpires ==
    /\ pc \in {"cmd_wait", "py_wait"}
    /\ child.alive
    /\ ~child.expired
    /\ child' = [child EXCEPT !.expired = TRUE]
    /\ UNCHANGED <<pc, intent, result, environ, proc_cwd, allowed_base_dir, touched, norm, generated>>
    /\ UNCHANGED server_vars

\* Output streams a command child may produce.
CommandOutputs ==
    {"", "  file.txt\n", Rep("x", MessageOutputCap), Rep("x", MessageOutputCap + 1)}

CommandErrors == {"", Rep("e", MessageOutputCap + 1)}

\* The child exits before the timeout: the rest of the try block of _execute_command.
CommandExit ==
    /\ pc = "cmd_wait"
    /\ ~child.expired
    /\ \E returncode \in {0, 1}, raw_stdout \in CommandOutputs, raw_stderr \in CommandErrors :
          result' = Completed(Get(intent.parameters, "command", ""),
                              returncode, raw_stdout, raw_stderr)
    /\ child' = [child EXCEPT !.alive = FALSE]
    /\ pc' = "done"
    /\ UNCHANGED <<intent, environ, proc_cwd, allowed_base_dir, touched, norm, generated>>
    /\ UNCHANGED server_vars

\* subprocess.run kills the child at the timeout and raises TimeoutExpired.
CommandTimeout ==
    /\ pc = "cmd_wait"
    /\ child.expired
    /\ child' = [child EXCEPT !.alive = FALSE, !.killed = TRUE]
    /\ result' = TimedOut(Get(intent.parameters, "command", ""))
    /\ pc' = "done"
    /\ UNCHANGED <<intent, environ, proc_cwd, allowed_base_dir, touched, norm, generated>>
    /\ UNCHANGED server_vars

(***************************************************************************)
(* The filesystem the server runs on                                       *)
(***************************************************************************)
\* A resolved path is the sequence of its component names below "/".
RootDir == <<>>

\* The password database: user name -> home directory (pwd.getpwnam).
UserHomes == [user |-> "/home/user", root |-> "/root"]

\* Symbolic links: resolved path of the link -> link text (os.readlink).
Symlinks ==
    (<<"home", "user", "link">> :> "/etc") @@
    (<<"home", "user", "docs">> :> "Documents") @@
    (<<"home", "user", "loop">> :> "/home/user/loop") @@
    (<<"tmp", "in">> :> "/home/user")

Directories ==
    {<<>>, <<"home">>, <<"home", "user">>, <<"home", "user", "Documents">>,
     <<"home", "user", "Downloads">>, <<"home", "user", "LIA">>,
     <<"home", "user", "LIA", "backend">>, <<"etc">>, <<"tmp">>, <<"root">>}

RegularFiles ==
    {<<"home", "user", "notes.txt">>, <<"home", "user", "Documents", "a.txt">>,
     <<"home", "user", "LIA", "backend", "main.py">>, <<"etc", "passwd">>}

\* Files that are neither regular files nor directories: a named pipe nobody has open.
SpecialFiles == {<<"home", "user", "pipe">>}

(***************************************************************************)
(* CommandExecutor._normalize_path                                         *)
(***************************************************************************)
common_folders ==
    [downloads |-> "Downloads", documents |-> "Documents", pictures |-> "Pictures",
     desktop |-> "Desktop", music |-> "Music", videos |-> "Videos", home |-> ""]

\* str.startswith
StartsWith(s, p) == Len(p) <= Len(s) /\ SubSeq(s, 1, Len(p)) = p

\* s.rstrip("/")
RECURSIVE RStripSlash(_)
RStripSlash(s) ==
    IF s # "" /\ Char(s, Len(s)) = "/" THEN RStripSlash(SubSeq(s, 1, Len(s) - 1)) ELSE s

\* userhome.rstrip("/") + rest, or "/" when that is empty
JoinHome(userhome) == IF userhome = "" THEN "/" ELSE userhome

\* os.path.expanduser for a path "~name..." whose user name ends before index i
ExpandUserName(path, name, rest) ==
    IF name = "" THEN JoinHome(RStripSlash(UserHomes["user"]) \o rest)
    ELSE IF name \in DOMAIN UserHomes THEN JoinHome(RStripSlash(UserHomes[name]) \o rest)
    ELSE path

ExpandUserAt(path, i) ==
    ExpandUserName(path, SubSeq(path, 2, i - 1), SubSeq(path, i, Len(path)))

\* os.path.expanduser
expanduser(path) ==
    IF ~StartsWith(path, "~") THEN path
    ELSE ExpandUserAt(path, Min({i \in 2..(Len(path) + 1) :
                                     i = Len(path) + 1 \/ Char(path, i) = "/"}))

\* The components pathlib keeps of a path string: "" and "." are dropped, ".." is kept.
Components(s) == SelectSeq(SplitOn(s, "/"), LAMBDA x : x # "" /\ x # ".")

IsAbs(s) == StartsWith(s, "/")

Parent(p) == IF p = <<>> THEN <<>> ELSE SubSeq(p, 1, Len(p) - 1)

\* os.path.normpath on components: ".." removes the component before it.
RECURSIVE LexNormAcc(_, _)
LexNormAcc(acc, rest) ==
    IF rest = <<>> THEN acc
    ELSE IF Head(rest) = ".." THEN LexNormAcc(Parent(acc), Tail(rest))
    ELSE LexNormAcc(Append(acc, Head(rest)), Tail(rest))

\* posixpath._joinrealpath (strict=False): resolve rest below path, following
\* symbolic links; seen holds the links being resolved.  ok = FALSE: a symlink loop
\* was met and the rest was joined without resolution.
\* AfterLink continues below a link whose target resolved to r; FollowLink resolves
\* the target of the link newpath found in the directory path.
RECURSIVE JoinRealpath(_, _, _), AfterLink(_, _, _), FollowLink(_, _, _, _, _)
AfterLink(r, more, seen) ==
    IF r.ok THEN JoinRealpath(r.path, more, seen)
    ELSE [path |-> LexNormAcc(r.path, more), ok |-> FALSE]

FollowLink(path, newpath, target, more, seen) ==
    AfterLink(JoinRealpath(IF IsAbs(target) THEN RootDir ELSE path,
                           Components(target), seen \cup {newpath}),
              more, seen)

JoinRealpath(path, rest, seen) ==
    IF rest = <<>> THEN [path |-> path, ok |-> TRUE]
    ELSE IF Head(rest) = ".." THEN JoinRealpath(Parent(path), Tail(rest), seen)
    ELSE IF Append(path, Head(rest)) \notin DOMAIN Symlinks
         THEN JoinRealpath(Append(path, Head(rest)), Tail(rest), seen)
    ELSE IF Append(path, Head(rest)) \in seen
         THEN [path |-> LexNormAcc(Append(path, Head(rest)), Tail(rest)), ok |-> FALSE]
    ELSE FollowLink(path, Append(path, Head(rest)), Symlinks[Append(path, Head(rest))],
                    Tail(rest), seen)

\* Path.resolve() after os.path.realpath returned r: a path that was not fully
\* resolved is checked with stat, which fails on a symlink loop (RuntimeError).
CheckLoop(r) ==
    IF r.ok THEN [status |-> "ok", path |-> r.path]
    ELSE IF JoinRealpath(RootDir, r.path, {}).ok
         THEN [status |-> "ok", path |-> r.path]
         ELSE [status |-> "error", path |-> r.path]

\* Path(s).resolve() in a process whose working directory is cwd:
\* [status |-> "ok", path |-> p] or [status |-> "error"] (RuntimeError: symlink loop).
Resolve(s, cwd) ==
    CheckLoop(JoinRealpath(IF IsAbs(s) THEN RootDir ELSE cwd, Components(s), {}))

\* normalized.relative_to(base) succeeds
IsRelativeTo(p, base) == Len(base) <= Len(p) /\ SubSeq(p, 1, Len(base)) = base

\* The alias step for a path whose case-folded, stripped text is path_lower.
AliasOf(path, path_lower) ==
    IF path_lower \in DOMAIN common_folders /\ ~Contains(path, "/") /\ ~Contains(path, "\\")
    THEN IF common_folders[path_lower] # "" THEN "~/" \o common_folders[path_lower] ELSE "~"
    ELSE path

\* The alias step: a bare well-known folder name becomes a path below "~".
ExpandAlias(path) == AliasOf(path, Strip(Lower(path)))

\* The security check of _normalize_path on a resolved path.
CheckContained(resolved, base) ==
    IF resolved.status = "error" \/ base.status = "error" THEN [status |-> "error", path |-> <<>>]
    ELSE IF IsRelativeTo(resolved.path, base.path) THEN [status |-> "ok", path |-> resolved.path]
    ELSE [status |-> "denied", path |-> <<>>]

\* _normalize_path: [status |-> "ok", path |-> p] when p is returned,
\* "denied" when PermissionError is raised, "error" when resolve() raises.
NormalizePath(path, cwd, base_dir) ==
    CheckContained(Resolve(expanduser(ExpandAlias(path)), cwd),
                   Resolve(expanduser(base_dir), cwd))

(***************************************************************************)
(* The file handlers of CommandExecutor                                    *)
(***************************************************************************)
\* The path a system call acts on when handed the absolute components p:
\* the kernel follows symbolic links and "..".  status "error": ELOOP.
Followed(r) == [status |-> IF r.ok THEN "ok" ELSE "error", path |-> r.path]

OsPath(p) == Followed(JoinRealpath(RootDir, p, {}))

\* Path.is_dir, Path.is_file, Path.exists: stat follows symbolic links.
IsDir(p) == \E real \in {OsPath(p)} : real.status = "ok" /\ real.path \in Directories
IsFile(p) == \E real \in {OsPath(p)} : real.status = "ok" /\ real.path \in RegularFiles
IsSpecial(p) == \E real \in {OsPath(p)} : real.status = "ok" /\ real.path \in SpecialFiles
Exists(p) ==
    \E real \in {OsPath(p)} :
        real.status = "ok" /\ real.path \in Directories \cup RegularFiles \cup SpecialFiles

\* pathlib's base / s: an absolute right operand replaces the left one.
PathJoin(base, s) == IF IsAbs(s) THEN Components(s) ELSE base \o Components(s)

\* CommandResult of a file handler.
FileResult(command_type, success, kind) ==
    [returned |-> TRUE, success |-> success,
     message |-> [kind |-> kind, pattern |-> "", stdout |-> "", stderr |-> ""],
     data |-> NoData, command_type |-> command_type, python_mode |-> FALSE, python_code |-> ""]

\* The branch except Exception of a handler after _normalize_path raised.
NormFailure(n) == IF n.status = "denied" THEN "access_denied" ELSE "exception"

\* A value for which not value holds: a missing parameter or an empty string.
Falsy(params, key) == key \notin DOMAIN params \/ params[key] = ""

\* Common end of a handler: it returns r having made the filesystem accesses t;
\* n is the outcome of its last _normalize_path call.
Return(r, t, n) ==
    /\ result' = r
    /\ touched' = t
    /\ norm' = n
    /\ pc' = "done"
    /\ UNCHANGED <<intent, child, environ, proc_cwd, allowed_base_dir, generated>>
    /\ UNCHANGED server_vars

Normalize(path) == NormalizePath(path, proc_cwd, allowed_base_dir)

NotNormalized == [status |-> "none"]

\* A handler inside open() of a named pipe: the call returns only when another
\* process opens the other end. t is the access it is blocked in.
Block(t, n) ==
    /\ pc' = "blocked"
    /\ touched' = t
    /\ norm' = n
    /\ UNCHANGED <<intent, child, result, environ, proc_cwd, allowed_base_dir, generated>>
    /\ UNCHANGED server_vars

\* Another process opens the other end of the pipe: write_text / read_text returns
\* and the handler builds its result.
PeerOpensPipe ==
    /\ pc = "blocked"
    /\ result' = FileResult(intent.command_type, TRUE,
                            IF intent.command_type = "write_file" THEN "written" ELSE "read")
    /\ pc' = "done"
    /\ UNCHANGED <<intent, child, touched, norm, environ, proc_cwd, allowed_base_dir,
                   generated>>
    /\ UNCHANGED server_vars

\* _open_folder and _open_file: xdg-open on the normalized path.
OpenPath(command_type, default) ==
    /\ pc = "start"
    /\ intent.command_type = command_type
    /\ \E params \in {intent.parameters} :
       \E n \in {Normalize(Get(params, "path", default))} :
           IF command_type = "open_file" /\ Falsy(params, "path")
           THEN Return(FileResult(command_type, FALSE, "no_path"), {}, NotNormalized)
           ELSE IF n.status # "ok"
           THEN Return(FileResult(command_type, FALSE, NormFailure(n)), {}, n)
           ELSE IF ~Exists(n.path)
           THEN Return(FileResult(command_type, FALSE, "not_found"), {}, n)
           ELSE IF (command_type = "open_folder" /\ ~IsDir(n.path))
                   \/ (command_type = "open_file" /\ ~IsFile(n.path))
           THEN Return(FileResult(command_type, FALSE, "wrong_type"), {}, n)
           ELSE Return(FileResult(command_type, TRUE, "opened"),
                       {[op |-> "open", path |-> n.path]}, n)

OpenFolder == OpenPath("open_folder", "~")

OpenFile == OpenPath("open_file", "")

\* The directory a glob pattern joined to base makes the handler enumerate.
GlobDirectory(base, pattern) == OsPath(Parent(PathJoin(base, pattern)))

\* _list_files: glob.glob(str(normalized_path / pattern))
ListFiles ==
    /\ pc = "start"
    /\ intent.command_type = "list_files"
    /\ \E params \in {intent.parameters} :
       \E n \in {Normalize(Get(params, "path", "."))} :
           IF n.status # "ok"
           THEN Return(FileResult("list_files", FALSE, NormFailure(n)), {}, n)
           ELSE IF ~Exists(n.path)
           THEN Return(FileResult("list_files", FALSE, "not_found"), {}, n)
           ELSE IF ~IsDir(n.path)
           THEN Return(FileResult("list_files", FALSE, "wrong_type"), {}, n)
           ELSE \E d \in {GlobDirectory(n.path, Get(params, "pattern", "*"))} :
                   Return(FileResult("list_files", TRUE, "listed"),
                          IF d.status = "ok" /\ d.path \in Directories
                          THEN {[op |-> "list", path |-> d.path]} ELSE {}, n)

\* Path.write_text on the file that the system call resolves the path to.
WriteResolved(t) ==
    IF t.status = "ok" /\ t.path \notin Directories /\ Parent(t.path) \in Directories
    THEN [ok |-> TRUE, touched |-> {[op |-> "write", path |-> t.path]}]
    ELSE [ok |-> FALSE, touched |-> {}]

\* Path.write_text on the absolute components p: the accesses made and whether it raises.
WriteText(p) == WriteResolved(OsPath(p))

\* _create_file: a bare file name goes to ~/Documents without _normalize_path.
CreateFile ==
    /\ pc = "start"
    /\ intent.command_type = "create_file"
    /\ \E filename \in {Get(intent.parameters, "filename", "newfile.txt")} :
       \E base_dir \in {HomeDir \o <<"Documents">>} :
           IF ~Contains(filename, "/") /\ ~Contains(filename, "\\")
           THEN \E w \in {WriteText(PathJoin(base_dir, filename))} :
                   Return(FileResult("create_file", w.ok, IF w.ok THEN "created" ELSE "exception"),
                          {[op |-> "mkdir", path |-> base_dir]} \cup w.touched, NotNormalized)
           ELSE \E n \in {Normalize(filename)} :
                   IF n.status # "ok"
                   THEN Return(FileResult("create_file", FALSE, NormFailure(n)), {}, n)
                   ELSE \E w \in {WriteText(n.path)} :
                           Return(FileResult("create_file", w.ok,
                                             IF w.ok THEN "created" ELSE "exception"),
                                  w.touched, n)

\* _write_file
WriteFile ==
    /\ pc = "start"
    /\ intent.command_type = "write_file"
    /\ \E params \in {intent.parameters} :
       \E n \in {Normalize(Get(params, "path", ""))} :
           IF Falsy(params, "path")
           THEN Return(FileResult("write_file", FALSE, "no_path"), {}, NotNormalized)
           ELSE IF n.status # "ok"
           THEN Return(FileResult("write_file", FALSE, NormFailure(n)), {}, n)
           ELSE IF IsSpecial(n.path)
           THEN Block({[op |-> "write", path |-> n.path]}, n)
           ELSE \E w \in {WriteText(n.path)} :
                   Return(FileResult("write_file", w.ok, IF w.ok THEN "written" ELSE "exception"),
                          w.touched, n)

\* _read_file
ReadFile ==
    /\ pc = "start"
    /\ intent.command_type = "read_file"
    /\ \E params \in {intent.parameters} :
       \E n \in {Normalize(Get(params, "path", ""))} :
           IF Falsy(params, "path")
           THEN Return(FileResult("read_file", FALSE, "no_path"), {}, NotNormalized)
           ELSE IF n.status # "ok"
           THEN Return(FileResult("read_file", FALSE, NormFailure(n)), {}, n)
           ELSE IF ~Exists(n.path)
           THEN Return(FileResult("read_file", FALSE, "not_found"), {}, n)
           ELSE IF IsDir(n.path)
           THEN Return(FileResult("read_file", FALSE, "exception"), {}, n)
           ELSE IF IsSpecial(n.path)
           THEN Block({[op |-> "read", path |-> n.path]}, n)
           ELSE Return(FileResult("read_file", TRUE, "read"),
                       {[op |-> "read", path |-> n.path]}, n)

\* _search_files: normalized_path.rglob(pattern)
SearchFiles ==
    /\ pc = "start"
    /\ intent.command_type = "search_files"
    /\ \E pattern \in {Get(intent.parameters, "pattern", "*")} :
       \E n \in {Normalize(Get(intent.parameters, "path", "~"))} :
           IF n.status # "ok"
           THEN Return(FileResult("search_files", FALSE, NormFailure(n)), {}, n)
           ELSE IF IsAbs(pattern) \/ pattern = ""
           THEN Return(FileResult("search_files", FALSE, "exception"), {}, n)
           ELSE \E d \in {GlobDirectory(n.path, pattern)} :
                   Return(FileResult("search_files", TRUE, "listed"),
                          IF IsDir(n.path) /\ d.status = "ok" /\ d.path \in Directories
                          THEN {[op |-> "list", path |-> d.path]} ELSE {}, n)

\* _delete_file: unlink for a file, shutil.rmtree for a directory; for a path that
\* exists and is neither, control leaves the if/elif and the function body ends:
\* the coroutine returns None, no CommandResult.
DeleteFile ==
    /\ pc = "start"
    /\ intent.command_type = "delete_file"
    /\ \E params \in {intent.parameters} :
       \E n \in {Normalize(Get(params, "path", ""))} :
           IF Falsy(params, "path")
           THEN Return(FileResult("delete_file", FALSE, "no_path"), {}, NotNormalized)
           ELSE IF n.status # "ok"
           THEN Return(FileResult("delete_file", FALSE, NormFailure(n)), {}, n)
           ELSE IF ~Exists(n.path)
           THEN Return(FileResult("delete_file", FALSE, "not_found"), {}, n)
           ELSE IF IsFile(n.path) \/ IsDir(n.path)
           THEN Return(FileResult("delete_file", TRUE, "deleted"),
                       {[op |-> "delete", path |-> n.path]}, n)
           ELSE Return(NoResult, {}, n)

\* _copy_file (shutil.copy2 / copytree) and _move_file (shutil.move).
CopyOrMove(command_type, op) ==
    /\ pc = "start"
    /\ intent.command_type = command_type
    /\ \E params \in {intent.parameters} :
       \E s \in {Normalize(Get(params, "source", ""))} :
       \E d \in {Normalize(Get(params, "destination", ""))} :
           IF Falsy(params, "source") \/ Falsy(params, "destination")
           THEN Return(FileResult(command_type, FALSE, "no_path"), {}, NotNormalized)
           ELSE IF s.status # "ok"
           THEN Return(FileResult(command_type, FALSE, NormFailure(s)), {}, s)
           ELSE IF d.status # "ok"
           THEN Return(FileResult(command_type, FALSE, NormFailure(d)), {}, d)
           ELSE IF ~Exists(s.path)
           THEN Return(FileResult(command_type, FALSE, "not_found"), {}, d)
           ELSE IF ~IsDir(Parent(d.path)) \/ (op = "copy" /\ IsSpecial(s.path))
           THEN Return(FileResult(command_type, FALSE, "exception"), {}, d)
           ELSE Return(FileResult(command_type, TRUE, op),
                       {[op |-> op \o "_source", path |-> s.path],
                        [op |-> op \o "_destination", path |-> d.path]}, d)

CopyFile == CopyOrMove("copy_file", "copy")

MoveFile == CopyOrMove("move_file", "move")

\* _rename_file: the destination is source_path.parent / new_name.
RenameFile ==
    /\ pc = "start"
    /\ intent.command_type = "rename_file"
    /\ \E params \in {intent.parameters} :
       \E n \in {Normalize(Get(params, "path", ""))} :
           IF Falsy(params, "path") \/ Falsy(params, "new_name")
           THEN Return(FileResult("rename_file", FALSE, "no_path"), {}, NotNormalized)
           ELSE IF n.status # "ok"
           THEN Return(FileResult("rename_file", FALSE, NormFailure(n)), {}, n)
           ELSE IF ~Exists(n.path)
           THEN Return(FileResult("rename_file", FALSE, "not_found"), {}, n)
           ELSE \E dest \in {OsPath(PathJoin(Parent(n.path), Get(params, "new_name", "")))} :
                   IF /\ dest.status = "ok"
                      /\ Parent(dest.path) \in Directories
                      /\ dest.path # RootDir
                   THEN Return(FileResult("rename_file", TRUE, "renamed"),
                               {[op |-> "rename_source", path |-> n.path],
                                [op |-> "rename_destination", path |-> dest.path]}, n)
                   ELSE Return(FileResult("rename_file", FALSE, "exception"), {}, n)

\* _get_info: stat of the normalized path, or system information without a path.
GetInfo ==
    /\ pc = "start"
    /\ intent.command_type = "get_info"
    /\ \E params \in {intent.parameters} :
       \E n \in {Normalize(Get(params, "path", ""))} :
           IF Falsy(params, "path")
           THEN Return(FileResult("get_info", TRUE, "system_info"), {}, NotNormalized)
           ELSE IF n.status # "ok"
           THEN Return(FileResult("get_info", FALSE, NormFailure(n)), {}, n)
           ELSE IF ~Exists(n.path)
           THEN Return(FileResult("get_info", FALSE, "not_found"), {}, n)
           ELSE Return(FileResult("get_info", TRUE, "info"),
                       {[op |-> "stat", path |-> n.path]}, n)

(***************************************************************************)
(* Inputs of the file handlers                                             *)
(***************************************************************************)
\* Pieces of raw path text; a path is up to MaxPathFrags of them joined by "/".
PathFragments ==
    {"", "~", "..", "../..", ".", "etc/passwd", "link", "loop", "docs", "Documents",
     "notes.txt", "home", " Downloads ", "~root", "tmp/in", "user", "loop/../link"}

RawPaths ==
    {JoinWith(fs, "/") : fs \in UNION {[1..n -> PathFragments] : n \in 0..MaxPathFrags}}

\* Paths given to the handlers other than get_info.
HandlerPaths ==
    {"~/notes.txt", "../../etc/passwd", "~/link/passwd", "documents", "~/missing.txt",
     "~/loop", "~/LIA/backend/main.py", "~/LIA", "~/loop/../link/passwd", "~/pipe"}

Patterns == {"*", "*.txt", "../../*", "/etc/*"}

FileNames == {"new.txt", "~/LIA/new.txt", "/etc/new.txt", "..", "docs/new.txt"}

NewNames == {"renamed.txt", "../../../etc/renamed.txt", "/tmp/renamed.txt"}

Destinations == {"~/LIA/copy.txt", "/tmp/copy.txt"}

FileIntent(command_type, parameters) ==
    [command_type |-> command_type, parameters |-> parameters,
     original_message |-> command_type]

NoParameters == <<>>

GetInfoIntents ==
    {FileIntent("get_info", [path |-> p]) : p \in RawPaths}
    \cup {FileIntent("get_info", NoParameters)}

HandlerIntents ==
    {FileIntent(ct, [path |-> p]) :
        ct \in {"open_folder", "open_file", "write_file", "read_file", "delete_file"},
        p \in HandlerPaths}
    \cup {FileIntent(ct, NoParameters) :
        ct \in {"open_folder", "open_file", "list_files", "create_file", "write_file",
                "read_file", "delete_file", "search_files", "copy_file", "move_file",
                "rename_file"}}
    \cup {FileIntent(ct, [path |-> p, pattern |-> g]) :
        ct \in {"list_files", "search_files"}, p \in HandlerPaths, g \in Patterns}
    \cup {FileIntent("create_file", [filename |-> f]) : f \in FileNames}
    \cup {FileIntent(ct, [source |-> p, destination |-> d]) :
        ct \in {"copy_file", "move_file"}, p \in HandlerPaths, d \in Destinations}
    \cup {FileIntent("rename_file", [path |-> p, new_name |-> m]) :
        p \in HandlerPaths, m \in NewNames}

\* The same intents under a request text holding fallback keywords.
KeywordHandlerIntents ==
    {[i EXCEPT !.original_message = "count and analyze " \o i.command_type] :
        i \in HandlerIntents}

\* settings.allowed_directories: the default and a project directory.
AllowedDirectorySettings == {"~", "~/LIA"}

\* Working directories the server is started from.
WorkingDirectories == {HomeDir, <<"home", "user", "LIA", "backend">>}

(***************************************************************************)
(* PythonExecutor: the generated-script path                               *)
(***************************************************************************)
\* Variant in which generated scripts get the longest timeout of the three kinds.
ScriptTimeoutLongest == ShellTimeout + 5

\* PythonExecutor.__init__
execution_timeout == 5
max_output_size == 10000

\* Minimum length of a generated script body.
MinCodeLength == 10

ExplanationWords == {"explanation", "note:", "this will", "this code"}

\* The grave accent (U+0060) cannot be written in a string literal here; "^" stands
\* for it in every text of the model.
Backquote == "^"
CodeFence == Backquote \o Backquote \o Backquote
PythonFence == CodeFence \o "python"

\* code.split(fence)[1].split(CodeFence)[0]
Fenced(code, fence) == SplitOn(SplitOn(code, fence)[2], CodeFence)[1]

\* The markdown-fence branches of _extract_code_from_response on the stripped text.
Unfenced(code) ==
    IF Contains(code, PythonFence) THEN Fenced(code, PythonFence)
    ELSE IF Contains(code, CodeFence) THEN Fenced(code, CodeFence)
    ELSE code

\* A comment line holding one of the explanation words.
IsExplanation(line) ==
    /\ StartsWith(Strip(line), "#")
    /\ \E word \in ExplanationWords : Contains(Lower(line), word)

\* The line filter of _extract_code_from_response and its final strip.
CleanLines(code) ==
    Strip(JoinWith(SelectSeq(SplitOn(code, "\n"), LAMBDA line : ~IsExplanation(line)), "\n"))

\* _extract_code_from_response
ExtractCode(response) == CleanLines(Unfenced(Strip(response)))

AverageFallbackCode ==
    "\nimport sys\ntry:\n    # Example: calculate average\n    numbers = [1, 2, 3, 4, 5]\n"
    \o "    avg = sum(numbers) / len(numbers)\n    print(f\"Average: {avg:.2f}\")\n"
    \o "except Exception as e:\n    print(f\"Error: {e}\")\n"

ListFallbackCode ==
    "\nfrom pathlib import Path\ntry:\n    files = list(Path.home().iterdir())\n"
    \o "    print(f\"Found {len(files)} items\")\n    for f in files[:10]:\n"
    \o "        print(f\"  {f.name}\")\nexcept Exception as e:\n    print(f\"Error: {e}\")\n"

DefaultFallbackCode ==
    "\nprint(\"Task completed. Python execution was requested but specific "
    \o "implementation is not available.\")\n"

\* _generate_fallback_code
FallbackFor(request_lower) ==
    IF Contains(request_lower, "average") \/ Contains(request_lower, "mean")
    THEN AverageFallbackCode
    ELSE IF Contains(request_lower, "list") /\ Contains(request_lower, "file")
    THEN ListFallbackCode
    ELSE DefaultFallbackCode

GenerateFallbackCode(user_request) == FallbackFor(Lower(user_request))

\* generate_python_code, given the text the content generator returned: an empty
\* extraction raises ValueError, which the except branch turns into the fallback code.
CodeOrFallback(user_request, code) ==
    IF Strip(code) = "" THEN GenerateFallbackCode(user_request) ELSE code

GeneratePythonCode(user_request, response) ==
    IF ~IsStr(response) THEN GenerateFallbackCode(user_request)
    ELSE CodeOrFallback(user_request, ExtractCode(response))

\* is_safe_code: TRUE when no blocking pattern occurs in the case-folded code.
is_safe_code(code) ==
    LET code_lower == Lower(code)
        blocking == <<"import subprocess", "import os.system", "exec(", "eval(", "__import__">>
    IN  \A i \in 1..Len(blocking) : ~Contains(code_lower, Lower(blocking[i]))

\* The size check of execute_with_python: not code or len(code.strip()) < 10.
Degenerate(code) == code = "" \/ Len(Strip(code)) < MinCodeLength

\* env= of asyncio.create_subprocess_exec
ScriptChildEnv(parent_env) == {"HOME", "PATH", "PYTHONDONTWRITEBYTECODE"}

\* The child execute_python_code starts: python3 on the temporary file holding code.
ScriptChild(code, parent_env) ==
    [launched |-> TRUE, kind |-> "script", args |-> <<"python3">>, script |-> code,
     timeout |-> execution_timeout, env |-> ScriptChildEnv(parent_env), cwd |-> HomeDir,
     expired |-> FALSE, alive |-> TRUE, killed |-> FALSE]

TimeoutText == "Execution timed out after 5 seconds"

\* Variant of the script result built like the result of a native handler: without
\* the python_mode flag and the script body.
PythonResultAsNative(command_type, code, success, stdout, stderr) ==
    [returned |-> TRUE, success |-> success,
     message |-> [kind |-> "py_result", pattern |-> "", stdout |-> Strip(stdout),
                  stderr |-> stderr],
     data |-> [shape |-> "python", output |-> stdout, error |-> stderr, python_code |-> ""],
     command_type |-> command_type, python_mode |-> FALSE, python_code |-> ""]

\* Steps 2-3 of execute_with_python and the CommandResult execute builds from it,
\* given what execute_python_code returned.
PythonResult(command_type, code, success, stdout, stderr) ==
    LET message ==
            IF success /\ stdout # ""
            THEN [kind |-> "py_result", pattern |-> "", stdout |-> Strip(stdout), stderr |-> ""]
            ELSE IF stderr # ""
            THEN [kind |-> "py_error", pattern |-> "", stdout |-> "", stderr |-> stderr]
            ELSE [kind |-> "py_no_output", pattern |-> "", stdout |-> "", stderr |-> ""]
    IN  [returned |-> TRUE, success |-> success, message |-> message,
         data |-> [shape |-> "python", output |-> stdout, error |-> stderr,
                   python_code |-> code],
         command_type |-> command_type, python_mode |-> TRUE, python_code |-> code]

\* The result of execute_with_python for a degenerate generation.
GenerationFailed(command_type, code) ==
    [returned |-> TRUE, success |-> FALSE,
     message |-> [kind |-> "generation_failed", pattern |-> "", stdout |-> "", stderr |-> ""],
     data |-> [shape |-> "python", output |-> "", error |-> "Code generation failed",
               python_code |-> code],
     command_type |-> command_type, python_mode |-> TRUE, python_code |-> code]

\* What execute_python_code returns for a child that exited.
ScriptCompleted(returncode, raw_stdout, raw_stderr) ==
    [success |-> (returncode = 0),
     stdout |-> Prefix(raw_stdout, max_output_size),
     stderr |-> Prefix(raw_stderr, max_output_size)]

\* What execute_python_code returns after asyncio.TimeoutError.
ScriptTimedOut == [success |-> FALSE, stdout |-> "", stderr |-> TimeoutText]

\* Texts the content generator may return.
Responses ==
    {"print(sum([1, 2, 3]) / 3)",
     PythonFence \o "\nimport subprocess\nsubprocess.run(['ls'])\n" \o CodeFence,
     "Here is the code:\n" \o CodeFence \o "\nprint(eval('1 + 1'))\n" \o CodeFence \o "\nDone.",
     "EXEC('print(1)')\nexec('print(2)')",
     "m = __import__('os')\nprint(m.getcwd())",
     "# Note: this code prints a greeting\nprint('hello world')",
     "",
     "pass",
     PythonFence \o "\n" \o CodeFence,
     "Error generating content: timed out"}

Requests ==
    {"calculate the average of numbers in notes.txt", "List the FILES by size", "do it"}

UnknownIntents ==
    {[command_type |-> "unknown", parameters |-> NoParameters, original_message |-> m] :
        m \in Requests}

\* Output streams a script child may produce.
ScriptOutputs == {"", " 42\n", Rep("y", max_output_size), Rep("y", max_output_size + 1)}

ScriptErrors == {"", Rep("t", max_output_size + 1)}

\* No content generator call was made for the request.
NotGenerated == [called |-> FALSE, response |-> ""]

\* execute_with_python up to the wait for the child: the generator is called, the
\* code is size-checked, and python3 is started on it. The generator returns a text
\* or a value that is not a str, on which _extract_code_from_response raises.
ExecuteWithPython(command_type) ==
    \E response \in Responses \cup {None} :
    \E code \in {GeneratePythonCode(intent.original_message, response)} :
        /\ generated' = [called |-> TRUE, response |-> response]
        /\ IF Degenerate(code)
           THEN /\ result' = GenerationFailed(command_type, code)
                /\ pc' = "done"
                /\ UNCHANGED child
           ELSE /\ child' = ScriptChild(code, environ)
                /\ pc' = "py_wait"
                /\ UNCHANGED result

\* execute, unknown classification: execute_with_python without any test.
PythonStart ==
    /\ pc = "start"
    /\ intent.command_type = "unknown"
    /\ ExecuteWithPython("unknown")
    /\ UNCHANGED <<intent, environ, proc_cwd, allowed_base_dir, touched, norm>>
    /\ UNCHANGED server_vars

\* The keywords of the except Exception branch of execute.
fallback_keywords ==
    <<"calculate", "average", "sum", "count", "analyze", "parse", "extract">>

\* any(keyword in intent.original_message.lower() for keyword in [...])
HasFallbackKeyword(message_lower) ==
    \E i \in 1..Len(fallback_keywords) : Contains(message_lower, fallback_keywords[i])

\* python_indicators_en + python_indicators_az of can_handle_with_python (the entries
\* written in ASCII).
python_indicators ==
    <<"calculate", "compute", "average", "sum", "count", "analyze",
      "parse", "extract", "process", "convert", "transform",
      "compare", "find all", "filter", "sort by", "statistics",
      "json", "xml", "csv", "data", "numbers from", "pattern",
      "regex", "replace all", "manipulate", "generate random",
      "probability", "factorial", "fibonacci", "prime", "measure",
      "size", "how many", "total", "list all", "find", "search",
      "hesabla", "say", "ortalama", "tap", "axtar", "statistika">>

HasPythonIndicator(request_lower) ==
    \E i \in 1..Len(python_indicators) : Contains(request_lower, python_indicators[i])

\* Variant of can_handle_with_python that declines every request.
CanHandleNever(user_request, failed_command_type) == FALSE

\* can_handle_with_python: each of its three return statements returns True.
can_handle_with_python(user_request, failed_command_type) ==
    IF failed_command_type \in {"execute_command", "unknown"} THEN TRUE
    ELSE IF HasPythonIndicator(Lower(user_request)) THEN TRUE
    ELSE TRUE

\* The CommandResult of execute when the handler raised and no keyword matched.
ExecutionError(command_type) ==
    [returned |-> TRUE, success |-> FALSE,
     message |-> [kind |-> "execution_error", pattern |-> "", stdout |-> "", stderr |-> ""],
     data |-> NoData, command_type |-> command_type, python_mode |-> FALSE, python_code |-> ""]

\* The CommandResult of _try_python_fallback when can_handle_with_python says no.
OriginalError(command_type) ==
    [returned |-> TRUE, success |-> FALSE,
     message |-> [kind |-> "original_error", pattern |-> "", stdout |-> "", stderr |-> ""],
     data |-> NoData, command_type |-> command_type, python_mode |-> FALSE, python_code |-> ""]

\* _try_python_fallback up to the wait for the child.
TryPythonFallback ==
    IF can_handle_with_python(intent.original_message, EnumStr(intent.command_type))
    THEN ExecuteWithPython(intent.command_type)
    ELSE /\ result' = OriginalError(intent.command_type)
         /\ pc' = "done"
         /\ UNCHANGED <<child, generated>>

\* execute, except Exception: _execute_command raised AttributeError on
\* command.split() because the command parameter is not a str.
ExecuteException ==
    /\ pc = "start"
    /\ intent.command_type = "execute_command"
    /\ ~IsStr(Get(intent.parameters, "command", ""))
    /\ IF HasFallbackKeyword(Lower(intent.original_message))
       THEN TryPythonFallback
       ELSE /\ result' = ExecutionError(intent.command_type)
            /\ pc' = "done"
            /\ UNCHANGED <<child, generated>>
    /\ UNCHANGED <<intent, environ, proc_cwd, allowed_base_dir, touched, norm>>
    /\ UNCHANGED server_vars

\* The script exits before the timeout.
PythonExit ==
    /\ pc = "py_wait"
    /\ ~child.expired
    /\ \E returncode \in {0, 1}, raw_stdout \in ScriptOutputs, raw_stderr \in ScriptErrors :
       \E r \in {ScriptCompleted(returncode, raw_stdout, raw_stderr)} :
              result' = PythonResult(intent.command_type, child.script,
                                     r.success, r.stdout, r.stderr)
    /\ child' = [child EXCEPT !.alive = FALSE]
    /\ pc' = "done"
    /\ UNCHANGED <<intent, environ, proc_cwd, allowed_base_dir, touched, norm, generated>>
    /\ UNCHANGED server_vars

\* asyncio.wait_for raises TimeoutError: process.kill(), then the timeout result.
PythonTimeout ==
    /\ pc = "py_wait"
    /\ child.expired
    /\ child' = [child EXCEPT !.alive = FALSE, !.killed = TRUE]
    /\ result' = PythonResult(intent.command_type, child.script, ScriptTimedOut.success,
                              ScriptTimedOut.stdout, ScriptTimedOut.stderr)
    /\ pc' = "done"
    /\ UNCHANGED <<intent, environ, proc_cwd, allowed_base_dir, touched, norm, generated>>
    /\ UNCHANGED server_vars

(***************************************************************************)
(* Specification of CommandExecutor.execute                                *)
(***************************************************************************)
\* The server has served no request: the module-level state of main.py.
NoCacheOp == [op |-> "none", last_read |-> ""]

NoRequest == [pc |-> "idle"]

\* The requests the event loop handles at the same time, one per task.
MaxTasks == 2

Tasks == 1..MaxTasks

\* A task that handles no request.
NoTask ==
    [pc |-> "idle", mode |-> "", message |-> "", command_type |-> "", generator |-> None,
     response |-> [status |-> 0, body |-> ""]]

ServerIdle ==
    /\ now = 0
    /\ rate_limit_buckets = [client_id \in {} |-> <<>>]
    /\ calls = <<>>
    /\ store = <<>>
    /\ cache_op = NoCacheOp
    /\ recency = <<>>
    /\ set_at = [key \in {} |-> 0]
    /\ request = NoRequest
    /\ tasks = [t \in Tasks |-> NoTask]
    /\ command_executor = [ollama_service |-> "ollama_service", python_executor |-> None]
    /\ trace = <<>>
    /\ loop_held_by = 0

InitCommand ==
    /\ intent \in CommandIntents
    /\ environ \in Environs
    /\ proc_cwd = HomeDir
    /\ allowed_base_dir = expanduser("~")

InitFile ==
    /\ intent \in GetInfoIntents \cup HandlerIntents \cup KeywordHandlerIntents
    /\ environ = {"PATH", "HOME"}
    /\ proc_cwd \in WorkingDirectories
    /\ allowed_base_dir \in {expanduser(d) : d \in AllowedDirectorySettings}

InitUnknown ==
    /\ intent \in UnknownIntents
    /\ environ = {"PATH", "HOME", "OPENROUTER_API_KEY"}
    /\ proc_cwd = HomeDir
    /\ allowed_base_dir = expanduser("~")

Init ==
    /\ pc = "start"
    /\ child = NoChild
    /\ result = NoResult
    /\ touched = {}
    /\ norm = NotNormalized
    /\ generated = NotGenerated
    /\ ServerIdle
    /\ (InitCommand \/ InitFile \/ InitUnknown)

Next ==
    \/ ExecuteCommandStart
    \/ TimeoutExpires
    \/ CommandExit
    \/ CommandTimeout
    \/ OpenFolder
    \/ OpenFile
    \/ ListFiles
    \/ CreateFile
    \/ WriteFile
    \/ ReadFile
    \/ SearchFiles
    \/ DeleteFile
    \/ CopyFile
    \/ MoveFile
    \/ RenameFile
    \/ GetInfo
    \/ PeerOpensPipe
    \/ PythonStart
    \/ ExecuteException
    \/ PythonExit
    \/ PythonTimeout

Spec == Init /\ [][Next]_vars

(***************************************************************************)
(* main.py: the rate limiter                                               *)
(***************************************************************************)
\* The limiter is checked with a short window and a small limit; main.py sets
\* RATE_LIMIT_WINDOW_SEC = 30 and RATE_LIMIT_MAX_REQUESTS = 10.
RATE_LIMIT_WINDOW_SEC == 2
RATE_LIMIT_MAX_REQUESTS == 2

\* The clock is followed up to MaxTime seconds and the limiter for MaxCalls calls.
MaxTime == 4
MaxCalls == 5

\* No CommandExecutor.execute call is in progress.
ExecutorIdle ==
    /\ pc = "idle"
    /\ intent = [command_type |-> "help", parameters |-> <<>>, original_message |-> ""]
    /\ child = NoChild
    /\ result = NoResult
    /\ environ = {"PATH", "HOME"}
    /\ proc_cwd = HomeDir
    /\ allowed_base_dir = HomeDir
    /\ touched = {}
    /\ norm = NotNormalized
    /\ generated = NotGenerated

\* Variant of the purge that also drops a timestamp exactly one window old.
RECURSIVE DropOldInclusive(_, _)
DropOldInclusive(dq, window_start) ==
    IF dq # <<>> /\ Head(dq) <= window_start
    THEN DropOldInclusive(Tail(dq), window_start)
    ELSE dq

\* while dq and dq[0] < window_start: dq.popleft()
RECURSIVE DropOld(_, _)
DropOld(dq, window_start) ==
    IF dq # <<>> /\ Head(dq) < window_start
    THEN DropOld(Tail(dq), window_start)
    ELSE dq

\* Variant of the decision that records the timestamp of a rejected call too.
AdmitRecordingRejected(dq, t) ==
    [allowed |-> Len(dq) < RATE_LIMIT_MAX_REQUESTS, dq |-> Append(dq, t)]

\* The decision of _allow_request on the purged deque dq at time t, and the deque
\* it leaves.
Admit(dq, t) ==
    IF Len(dq) >= RATE_LIMIT_MAX_REQUESTS
    THEN [allowed |-> FALSE, dq |-> dq]
    ELSE [allowed |-> TRUE, dq |-> Append(dq, t)]

\* The deque of a client, an empty one if the client has none yet.
Bucket(buckets, client_id) ==
    IF client_id \in DOMAIN buckets THEN buckets[client_id] ELSE <<>>

\* _rate_limit_buckets after setdefault(client_id, deque()) and the changes of the
\* call to that deque.
WithBucket(buckets, client_id, dq) ==
    [c \in DOMAIN buckets \cup {client_id} |-> IF c = client_id THEN dq ELSE buckets[c]]

\* _allow_request(client_id) at time t: what it returns and the buckets it leaves.
AllowAfterPurge(buckets, client_id, decision) ==
    [allowed |-> decision.allowed, buckets |-> WithBucket(buckets, client_id, decision.dq)]

allow_request(buckets, client_id, t) ==
    AllowAfterPurge(buckets, client_id,
                    Admit(DropOld(Bucket(buckets, client_id), t - RATE_LIMIT_WINDOW_SEC), t))

\* The key an endpoint hands to _allow_request for a client address.
RateKey(group, client_ip) == group \o ":" \o client_ip

ClientAddresses == {"10.0.0.1", "10.0.0.2"}

\* Client keys of the limiter when it is checked alone.
ClientIds == {RateKey("chat", ip) : ip \in ClientAddresses}

\* time.time() advances by a second. The clock is taken to be non-decreasing.
Tick ==
    /\ now < MaxTime
    /\ now' = now + 1
    /\ UNCHANGED <<limiter_vars, cache_vars, request, loop_vars>>
    /\ UNCHANGED executor_vars

\* One call _allow_request(client_id).
AllowRequest ==
    /\ Len(calls) < MaxCalls
    /\ \E client_id \in ClientIds :
       \E r \in {allow_request(rate_limit_buckets, client_id, now)} :
           /\ rate_limit_buckets' = r.buckets
           /\ calls' = Append(calls, [client_id |-> client_id, at |-> now,
                                      admitted |-> r.allowed])
    /\ UNCHANGED <<now, cache_vars, request, loop_vars>>
    /\ UNCHANGED executor_vars

InitLimiter == ExecutorIdle /\ ServerIdle

NextLimiter ==
    \/ Tick
    \/ AllowRequest

SpecLimiter == InitLimiter /\ [][NextLimiter]_vars

(***************************************************************************)
(* main.py: LRUCacheTTL and intent_cache                                   *)
(***************************************************************************)
\* The cache is checked with a small capacity and a short time-to-live;
\* intent_cache is built with max_size=256 and ttl_sec=180.
max_size == 2
ttl == 2

\* cache_key = f"{request.mode}:{request.message.strip()}"
CacheKey(mode, message) == mode \o ":" \o Strip(message)

Modes == {"local", "general"}

Messages == {"list files", " list files ", "hello"}

CacheKeys == {CacheKey(mode, message) : mode \in Modes, message \in Messages}

\* The CommandIntent the parser returned for a key at time t.
ParsedIntent(key, t) == [key |-> key, parsed_at |-> t]

\* The keys that have an entry in the store.
KeysOf(st) == {st[i].key : i \in 1..Len(st)}

\* Position of the key in the OrderedDict, 0 if it has no entry.
IndexOf(st, key) == Min({i \in 1..Len(st) : st[i].key = key})

\* del self.store[key]
Remove(st, i) == SubSeq(st, 1, i - 1) \o SubSeq(st, i + 1, Len(st))

\* self.store.move_to_end(key)
MoveToEnd(st, i) == Remove(st, i) \o <<st[i]>>

\* Variant of a hit that restarts the lifetime of the entry.
GetAtIndexRefreshing(st, i, t) ==
    IF i = 0 THEN [hit |-> FALSE, value |-> None, store |-> st]
    ELSE IF t - st[i].ts > ttl
    THEN [hit |-> FALSE, value |-> None, store |-> Remove(st, i)]
    ELSE [hit |-> TRUE, value |-> st[i].value,
          store |-> Remove(st, i) \o <<[st[i] EXCEPT !.ts = t]>>]

\* LRUCacheTTL.get for the key at position i (0: no entry) at time t: a miss
\* returns None.
GetAtIndex(st, i, t) ==
    IF i = 0 THEN [hit |-> FALSE, value |-> None, store |-> st]
    ELSE IF t - st[i].ts > ttl
    THEN [hit |-> FALSE, value |-> None, store |-> Remove(st, i)]
    ELSE [hit |-> TRUE, value |-> st[i].value, store |-> MoveToEnd(st, i)]

\* LRUCacheTTL.get
CacheGetAt(st, key, t) == GetAtIndex(st, IndexOf(st, key), t)

\* Variant of the assignment that adds a second entry for a key already present.
AssignAppending(st, i, entry) == Append(st, entry)

\* self.store[key] = (time.time(), value): a new key is appended, the entry of a
\* key already present is replaced where it is.
Assign(st, i, entry) == IF i = 0 THEN Append(st, entry) ELSE [st EXCEPT ![i] = entry]

\* Variant of the eviction that pops the newest entry (popitem() without last=False).
EvictNewest(st) ==
    IF Len(st) > max_size
    THEN [store |-> SubSeq(st, 1, Len(st) - 1), evicted |-> {st[Len(st)].key}]
    ELSE [store |-> st, evicted |-> {}]

\* if len(self.store) > self.max_size: self.store.popitem(last=False)
Evict(st) ==
    IF Len(st) > max_size
    THEN [store |-> Tail(st), evicted |-> {Head(st).key}]
    ELSE [store |-> st, evicted |-> {}]

\* The store after the assignment, moved to the end.
AssignedLast(st, key) == MoveToEnd(st, IndexOf(st, key))

\* LRUCacheTTL.set: the store it leaves and the keys it evicted.
CacheSetAt(st, key, value, t) ==
    Evict(AssignedLast(Assign(st, IndexOf(st, key), [key |-> key, ts |-> t, value |-> value]),
                       key))

\* The keys with key moved to the most recent end.
Touch(order, key) == SelectSeq(order, LAMBDA k : k # key) \o <<key>>

\* The cache after intent_cache.get(key) returned r.
CacheGetResult(key, r) ==
    /\ store' = r.store
    /\ cache_op' = [op |-> "get", key |-> key, at |-> now,
                    found |-> IndexOf(store, key) # 0, hit |-> r.hit,
                    value |-> r.value, evicted |-> {},
                    last_read |-> IF r.hit THEN key ELSE cache_op.last_read]
    /\ recency' = IF r.hit THEN Touch(recency, key) ELSE recency
    /\ UNCHANGED set_at

\* The cache after intent_cache.set(key, value) left r.
CacheSetResult(key, value, r) ==
    /\ store' = r.store
    /\ cache_op' = [op |-> "set", key |-> key, at |-> now,
                    found |-> IndexOf(store, key) # 0, hit |-> FALSE,
                    value |-> value, evicted |-> r.evicted,
                    last_read |-> cache_op.last_read]
    /\ recency' = Touch(recency, key)
    /\ set_at' = [k \in DOMAIN set_at \cup {key} |-> IF k = key THEN now ELSE set_at[k]]

\* One call intent_cache.get(key).
CacheGet ==
    /\ \E key \in CacheKeys :
           CacheGetResult(key, CacheGetAt(store, key, now))
    /\ UNCHANGED <<now, limiter_vars, request, loop_vars>>
    /\ UNCHANGED executor_vars

\* One call intent_cache.set(key, intent) with the intent parsed now.
CacheSet ==
    /\ \E key \in CacheKeys :
           CacheSetResult(key, ParsedIntent(key, now),
                          CacheSetAt(store, key, ParsedIntent(key, now), now))
    /\ UNCHANGED <<now, limiter_vars, request, loop_vars>>
    /\ UNCHANGED executor_vars

InitCache == ExecutorIdle /\ ServerIdle

NextCache ==
    \/ Tick
    \/ CacheGet
    \/ CacheSet

SpecCache == InitCache /\ [][NextCache]_vars

(***************************************************************************)
(* main.py: the request entry points                                       *)
(***************************************************************************)
\* The server is followed for MaxRequests requests.
MaxRequests == 3

\* /api/chat, /api/generate, /api/chat/stream/v2 and /api/chat/stream, named by the
\* group each puts in its rate key.
Endpoints == {"chat", "gen", "streamv2", "stream"}

\* The request bodies sent to the entry points.
UserRequests ==
    {[mode |-> "local", message |-> " list files "], [mode |-> "general", message |-> "hello"]}

\* parse_user_intent: the CommandIntent the selected service returns for a message.
ParseUserIntent(message) ==
    IF Strip(message) = "hello"
    THEN [command_type |-> "chat", parameters |-> [question |-> message],
          original_message |-> message]
    ELSE IF Strip(message) = "count the words"
    THEN [command_type |-> "unknown", parameters |-> [task |-> message],
          original_message |-> message]
    ELSE [command_type |-> "execute_command", parameters |-> [command |-> "ls -la"],
          original_message |-> message]

\* The CommandIntent a cached value stands for.
IntentOf(value) == ParseUserIntent(SplitOn(value.key, ":")[2])

\* What a rejected request is answered with: /api/chat and /api/generate raise
\* HTTPException(429) inside the try block, whose except Exception turns it into
\* a 500; the streaming entry points yield one error event and return.
TooManyRequests(endpoint) ==
    IF endpoint \in {"chat", "gen"}
    THEN [status |-> 500, body |-> "error"]
    ELSE [status |-> 200, body |-> "error_event"]

NoResponse == [status |-> 0, body |-> ""]

\* Variant of the entry in which a rejected request goes on like an admitted one.
ContinueWhenRejected(endpoint, user_request, allowed) ==
    [pc |-> IF endpoint = "gen" THEN "generate" ELSE "lookup",
     endpoint |-> endpoint, mode |-> user_request.mode, message |-> user_request.message,
     admitted |-> allowed, intent |-> None, work |-> {}, response |-> NoResponse]

\* The request after the rate-limit check, the first statement of every entry point.
AfterRateCheck(endpoint, user_request, allowed) ==
    IF allowed
    THEN [pc |-> IF endpoint = "gen" THEN "generate" ELSE "lookup",
          endpoint |-> endpoint, mode |-> user_request.mode,
          message |-> user_request.message,
          admitted |-> TRUE, intent |-> None, work |-> {}, response |-> NoResponse]
    ELSE [pc |-> "done",
          endpoint |-> endpoint, mode |-> user_request.mode,
          message |-> user_request.message,
          admitted |-> FALSE, intent |-> None, work |-> {},
          response |-> TooManyRequests(endpoint)]

\* A request arrives at an entry point and is checked by the limiter.
Arrive ==
    /\ request.pc \in {"idle", "done"}
    /\ Len(calls) < MaxRequests
    /\ \E endpoint \in Endpoints, user_request \in UserRequests :
       \E client_id \in {RateKey(endpoint, "10.0.0.1")} :
       \E r \in {allow_request(rate_limit_buckets, client_id, now)} :
           /\ rate_limit_buckets' = r.buckets
           /\ calls' = Append(calls, [client_id |-> client_id, at |-> now,
                                      admitted |-> r.allowed])
           /\ request' = AfterRateCheck(endpoint, user_request, r.allowed)
    /\ UNCHANGED <<now, cache_vars, loop_vars>>
    /\ UNCHANGED executor_vars

\* Where a request with a parsed intent goes: /api/chat/stream/v2 streams the
\* tokens of a CHAT intent itself, everything else is executed.
WithIntent(req, parsed, work) ==
    [req EXCEPT !.intent = parsed,
                !.work = req.work \cup work,
                !.pc = IF req.endpoint = "streamv2" /\ parsed.command_type = "chat"
                       THEN "stream_tokens" ELSE "execute"]

\* The request after intent_cache.get(cache_key) returned r.
AfterLookup(req, r) ==
    IF r.hit
    THEN WithIntent(req, IntentOf(r.value), {"cache_get"})
    ELSE [req EXCEPT !.work = req.work \cup {"cache_get"}, !.pc = "parse"]

\* intent = intent_cache.get(cache_key)
LookupIntent ==
    /\ request.pc = "lookup"
    /\ \E key \in {CacheKey(request.mode, request.message)} :
       \E r \in {CacheGetAt(store, key, now)} :
           /\ CacheGetResult(key, r)
           /\ request' = AfterLookup(request, r)
    /\ UNCHANGED <<now, limiter_vars, loop_vars>>
    /\ UNCHANGED executor_vars

\* parse_user_intent returns and the intent is stored: intent_cache.set(cache_key, intent)
ParseAndStore ==
    /\ request.pc = "parse"
    /\ \E key \in {CacheKey(request.mode, request.message)} :
           /\ CacheSetResult(key, ParsedIntent(key, now),
                             CacheSetAt(store, key, ParsedIntent(key, now), now))
           /\ request' = WithIntent(request, ParseUserIntent(request.message),
                                    {"parse", "cache_set"})
    /\ UNCHANGED <<now, limiter_vars, loop_vars>>
    /\ UNCHANGED executor_vars

\* /api/generate: ollama_service.generate_content(request.message) returns or raises.
GenerateContent ==
    /\ request.pc = "generate"
    /\ \E response \in {[status |-> 200, body |-> "content"], [status |-> 500, body |-> "error"]} :
           request' = [request EXCEPT !.work = request.work \cup {"generate"},
                                      !.pc = "done", !.response = response]
    /\ UNCHANGED <<now, limiter_vars, cache_vars, loop_vars>>
    /\ UNCHANGED executor_vars

\* /api/chat/stream/v2, CHAT intent: the tokens of generate_content_stream are sent
\* until it ends or reports an error.
StreamTokens ==
    /\ request.pc = "stream_tokens"
    /\ \E body \in {"done_event", "error_event"} :
           request' = [request EXCEPT !.work = request.work \cup {"generate"},
                                      !.pc = "done",
                                      !.response = [status |-> 200, body |-> body]]
    /\ UNCHANGED <<now, limiter_vars, cache_vars, loop_vars>>
    /\ UNCHANGED executor_vars

\* result = await command_executor.execute(intent): the call is made.
CallExecute ==
    /\ request.pc = "execute"
    /\ request' = [request EXCEPT !.work = request.work \cup {"execute"}, !.pc = "executing"]
    /\ pc' = "start"
    /\ intent' = request.intent
    /\ UNCHANGED <<child, result, environ, proc_cwd, allowed_base_dir, touched, norm, generated>>
    /\ UNCHANGED <<now, limiter_vars, cache_vars, loop_vars>>

\* CommandExecutor._chat: the generator answers the question, or raises.
Chat ==
    /\ pc = "start"
    /\ intent.command_type = "chat"
    /\ \E success \in BOOLEAN :
           /\ generated' = [called |-> TRUE, response |-> IF success THEN "Hi!" ELSE None]
           /\ result' = [returned |-> TRUE, success |-> success,
                         message |-> [kind |-> "chat", pattern |-> "", stdout |-> "", stderr |-> ""],
                         data |-> NoData, command_type |-> "chat",
                         python_mode |-> FALSE, python_code |-> ""]
    /\ pc' = "done"
    /\ UNCHANGED <<intent, child, environ, proc_cwd, allowed_base_dir, touched, norm>>
    /\ UNCHANGED server_vars

\* execute returned: the response is built from the CommandResult and the call is over.
Respond ==
    /\ request.pc = "executing"
    /\ pc = "done"
    /\ request' = [request EXCEPT !.pc = "done",
                                  !.response = [status |-> 200,
                                                body |-> IF result.success THEN "result"
                                                         ELSE "failed_result"]]
    /\ pc' = "idle"
    /\ intent' = [command_type |-> "help", parameters |-> <<>>, original_message |-> ""]
    /\ child' = NoChild
    /\ result' = NoResult
    /\ generated' = NotGenerated
    /\ UNCHANGED <<environ, proc_cwd, allowed_base_dir, touched, norm>>
    /\ UNCHANGED <<now, limiter_vars, cache_vars, loop_vars>>

InitServer == ExecutorIdle /\ ServerIdle

\* The entry points are followed for a burst of requests inside one second of the
\* clock; the passing of time is followed in SpecLimiter and SpecCache.
NextServer ==
    \/ Arrive
    \/ LookupIntent
    \/ ParseAndStore
    \/ GenerateContent
    \/ StreamTokens
    \/ CallExecute
    \/ ExecuteCommandStart
    \/ TimeoutExpires
    \/ CommandExit
    \/ CommandTimeout
    \/ Chat
    \/ Respond

SpecServer == InitServer /\ [][NextServer]_vars

(***************************************************************************)
(* main.py: requests handled concurrently on one event loop                *)
(***************************************************************************)
\* Request bodies sent to /api/chat while other requests are in progress: a chat
\* question, a shell command and a task for the generated-script path in both modes.
ConcurrentRequests ==
    {[mode |-> "general", message |-> "hello"],
     [mode |-> "local", message |-> "list files"],
     [mode |-> "local", message |-> "count the words"],
     [mode |-> "general", message |-> "count the words"]}

\* if request.mode == "general": openrouter_service, else: ollama_service
ServiceOf(mode) == IF mode = "general" THEN "openrouter_service" ELSE "ollama_service"

\* A coroutine runs when the event loop schedules it: never while another task is
\* inside a synchronous call.
CanRun(t) == loop_held_by \in {0, t}

\* _ensure_python_executor: the PythonExecutor is built once, around the service the
\* CommandExecutor holds at that moment.
EnsurePythonExecutor(executor) ==
    IF executor.python_executor = None
    THEN [executor EXCEPT !.python_executor = executor.ollama_service]
    ELSE executor

\* command_executor.execute(intent) up to its first wait: _chat awaits the
\* generator in self.ollama_service, the fallback path awaits the generator of the
\* PythonExecutor, _execute_command is inside subprocess.run (the command of the
\* parsed intent passes the gate).
Started(req, command_type, executor) ==
    IF command_type = "chat"
    THEN [req EXCEPT !.command_type = command_type, !.pc = "generating",
                     !.generator = executor.ollama_service]
    ELSE IF command_type = "unknown"
    THEN [req EXCEPT !.command_type = command_type, !.pc = "generating",
                     !.generator = executor.python_executor]
    ELSE [req EXCEPT !.command_type = command_type, !.pc = "cmd_wait"]

\* The CommandExecutor after the request selected its service and execute took the
\* branch of the intent.
Selected(executor, mode, command_type) ==
    IF command_type = "unknown"
    THEN EnsurePythonExecutor([executor EXCEPT !.ollama_service = ServiceOf(mode)])
    ELSE [executor EXCEPT !.ollama_service = ServiceOf(mode)]

\* process_chat from the selection of the service to the first wait inside execute.
Execute(t, req, parsed) ==
    \E executor \in {Selected(command_executor, req.mode, parsed.command_type)} :
    \E started \in {Started(req, parsed.command_type, executor)} :
        /\ command_executor' = executor
        /\ tasks' = [tasks EXCEPT ![t] = started]
        /\ loop_held_by' = IF started.pc = "cmd_wait" THEN t ELSE loop_held_by

\* For the trace: the removal of the entries of the keys (at most one).
Removal(ev, keys) ==
    IF keys = {} THEN <<>> ELSE <<[ev |-> ev, key |-> CHOOSE k \in keys : TRUE, at |-> now]>>

\* A request to /api/chat is accepted by a free task and runs to its first wait: the
\* rate check, the cache lookup and, on a hit, the start of execute; on a miss the
\* parser is called and the task waits for its answer.
ArriveChat ==
    /\ Len(calls) < MaxRequests
    /\ loop_held_by = 0
    /\ \E user_request \in ConcurrentRequests :
       \E t \in {Min({u \in Tasks : tasks[u].pc \in {"idle", "done"}})} :
       \E r \in {allow_request(rate_limit_buckets, RateKey("chat", "10.0.0.1"), now)} :
       \E key \in {CacheKey(user_request.mode, user_request.message)} :
       \E g \in {CacheGetAt(store, key, now)} :
       \E req \in {[NoTask EXCEPT !.mode = user_request.mode,
                                  !.message = user_request.message]} :
           /\ t # 0
           /\ rate_limit_buckets' = r.buckets
           /\ calls' = Append(calls, [client_id |-> RateKey("chat", "10.0.0.1"), at |-> now,
                                      admitted |-> r.allowed])
           /\ IF ~r.allowed
              THEN /\ tasks' = [tasks EXCEPT ![t] = [req EXCEPT !.pc = "done",
                                                  !.response = TooManyRequests("chat")]]
                   /\ UNCHANGED <<cache_vars, command_executor, trace, loop_held_by>>
              ELSE /\ CacheGetResult(key, g)
                   /\ IF g.hit
                      THEN /\ Execute(t, req, IntentOf(g.value))
                           /\ UNCHANGED trace
                      ELSE /\ tasks' = [tasks EXCEPT ![t] = [req EXCEPT !.pc = "parsing"]]
                           /\ trace' = trace \o Removal("expire", KeysOf(store) \cap {key})
                                             \o <<[ev |-> "parse", key |-> key, at |-> now]>>
                           /\ UNCHANGED <<command_executor, loop_held_by>>
    /\ UNCHANGED <<now, request>>
    /\ UNCHANGED executor_vars

\* parse_user_intent returns to a waiting task: the intent is stored in the cache
\* and execute is started.
ParseReturns ==
    /\ \E t \in Tasks :
       \E key \in {CacheKey(tasks[t].mode, tasks[t].message)} :
       \E r \in {CacheSetAt(store, key, ParsedIntent(key, now), now)} :
           /\ CanRun(t)
           /\ tasks[t].pc = "parsing"
           /\ CacheSetResult(key, ParsedIntent(key, now), r)
           /\ trace' = trace \o Removal("evict", r.evicted)
           /\ Execute(t, tasks[t], ParseUserIntent(tasks[t].message))
    /\ UNCHANGED <<now, limiter_vars, request>>
    /\ UNCHANGED executor_vars

\* The response to a request whose execute call returned.
Served(req, body) == [req EXCEPT !.pc = "done", !.response = [status |-> 200, body |-> body]]

\* generate_content returns to a waiting task: _chat builds its result; the fallback
\* path starts the script as a child (asyncio.create_subprocess_exec) and waits for
\* it, or returns the generation failure.
GeneratorReturns ==
    /\ \E t \in Tasks :
           /\ CanRun(t)
           /\ tasks[t].pc = "generating"
           /\ \/ /\ tasks[t].command_type = "chat"
                 /\ tasks' = [tasks EXCEPT ![t] = Served(tasks[t], "result")]
              \/ /\ tasks[t].command_type = "unknown"
                 /\ tasks' = [tasks EXCEPT ![t].pc = "py_wait"]
              \/ /\ tasks[t].command_type = "unknown"
                 /\ tasks' = [tasks EXCEPT ![t] = Served(tasks[t], "failed_result")]
    /\ UNCHANGED <<now, limiter_vars, cache_vars, request, command_executor, trace,
                   loop_held_by>>
    /\ UNCHANGED executor_vars

\* The script child exits or is killed at the timeout: wait_for returns to the task
\* (the outcomes of the child are followed in Spec).
ScriptReturns ==
    /\ \E t \in Tasks :
           /\ CanRun(t)
           /\ tasks[t].pc = "py_wait"
           /\ tasks' = [tasks EXCEPT ![t] = Served(tasks[t], "result")]
    /\ UNCHANGED <<now, limiter_vars, cache_vars, request, command_executor, trace,
                   loop_held_by>>
    /\ UNCHANGED executor_vars

\* subprocess.run returns, the child having exited or been killed at the timeout:
\* the event loop is free again.
RunReturns ==
    /\ \E t \in Tasks :
           /\ loop_held_by = t
           /\ tasks[t].pc = "cmd_wait"
           /\ tasks' = [tasks EXCEPT ![t] = Served(tasks[t], "result")]
    /\ loop_held_by' = 0
    /\ UNCHANGED <<now, limiter_vars, cache_vars, request, command_executor, trace>>
    /\ UNCHANGED executor_vars

InitConcurrent == ExecutorIdle /\ ServerIdle

NextConcurrent ==
    \/ Tick
    \/ ArriveChat
    \/ ParseReturns
    \/ GeneratorReturns
    \/ ScriptReturns
    \/ RunReturns

SpecConcurrent == InitConcurrent /\ [][NextConcurrent]_vars

(***************************************************************************)
(* Properties of the command gate and the process sandbox                  *)
(***************************************************************************)
\* The command text of the request, as _execute_command reads it.
RawCommand == Get(intent.parameters, "command", "")

\* Path(self.allowed_base_dir).resolve(): the resolved AllowedRoot.
ResolvedRoot == Resolve(allowed_base_dir, proc_cwd)

\* C1: a command whose first whitespace-delimited token is not an exact
\* (case-sensitive) member of the allow-list is denied (success = false) and no
\* child process is started, whatever deny-list patterns the command contains.
C1_NotAllowListedIsDenied ==
    (intent.command_type = "execute_command" /\ IsStr(RawCommand) /\ pc # "start") =>
        LET tokens == Split(RawCommand)
        IN  (tokens # <<>> /\ \A i \in 1..Len(safe_commands) : safe_commands[i] # tokens[1]) =>
                /\ pc = "done"
                /\ ~child.launched
                /\ result.returned
                /\ ~result.success

\* "LS -la" differs from the allow-listed "ls" by case only and has been denied.
C1_Witness ==
    /\ pc = "done"
    /\ intent.command_type = "execute_command"
    /\ RawCommand = "LS -la"
    /\ result.returned
    /\ ~result.success
    /\ result.message.kind = "not_allowed"
    /\ ~child.launched

\* C2: a command whose base command is allow-listed and which contains, compared
\* case-insensitively, any pattern of the deny-list (the patterns written with
\* upper-case letters included) is denied and no child process is started.
C2_DenyListPrecedence ==
    (intent.command_type = "execute_command" /\ IsStr(RawCommand) /\ pc # "start") =>
        LET tokens == Split(RawCommand)
        IN  (/\ tokens # <<>>
             /\ InList(tokens[1], safe_commands)
             /\ \E i \in 1..Len(dangerous_patterns) :
                   Contains(Lower(RawCommand), Lower(dangerous_patterns[i]))) =>
                /\ ~child.launched
                /\ result.returned
                /\ ~result.success

\* C3: a path returned by _normalize_path is fully resolved (no symbolic link is left
\* in it) and is equal to or a descendant of the resolved AllowedRoot, so the file
\* it names is never outside the root.
C3_NormalizeWithinRoot ==
    norm.status = "ok" =>
        LET real == OsPath(norm.path)
        IN  /\ real.status = "ok"
            /\ real.path = norm.path
            /\ IsRelativeTo(real.path, ResolvedRoot.path)

\* C4: every filesystem path a file handler reads, writes, lists, renames to or
\* deletes is equal to or a descendant of AllowedRoot.
C4_HandlersWithinRoot ==
    \A t \in touched :
        LET real == OsPath(t.path)
        IN  real.status = "ok" /\ IsRelativeTo(real.path, ResolvedRoot.path)

\* C5: a generated script reaches the child-process launch only if the static
\* safety scan accepts it: no script containing a subprocess import, exec(, eval(
\* or __import__ is ever executed.
C5_ScriptScannedBeforeLaunch ==
    (child.launched /\ child.kind = "script") => is_safe_code(child.script)

\* C6: the stdout and the stderr carried in a returned result, in the message and in
\* the data payload alike, are each no longer than the output cap of the execution
\* kind, or are the first cap characters followed by the truncation marker.
C6_OutputCapped ==
    (result.returned /\ child.launched) =>
        LET cap == IF child.kind = "script" THEN max_output_size ELSE MessageOutputCap
            Capped(text) ==
                \/ Len(text) <= cap
                \/ /\ Len(text) = cap + Len(TruncationMarker)
                   /\ SubSeq(text, cap + 1, Len(text)) = TruncationMarker
        IN  /\ Capped(result.message.stdout)
            /\ Capped(result.message.stderr)
            /\ result.data.shape = "command" =>
                   Capped(result.data.stdout) /\ Capped(result.data.stderr)
            /\ result.data.shape = "python" =>
                   Capped(result.data.output) /\ Capped(result.data.error)

\* C7: when a child (command or generated script) is still running at its timeout,
\* it is killed and the result of the request has success = false and reports the
\* timeout; no success and no partial stdout is returned for a timed-out execution.
C7_TimeoutKillsAndFails ==
    child.expired =>
        /\ pc # "done" => ~result.returned
        /\ pc = "done" =>
              /\ child.killed
              /\ ~child.alive
              /\ result.returned
              /\ ~result.success
              /\ \/ result.message.kind = "timeout"
                 \/ result.message.kind = "py_error" /\ result.message.stderr = TimeoutText
              /\ result.message.stdout = ""
              /\ result.data.shape = "command" => result.data.stdout = ""
              /\ result.data.shape = "python" => result.data.output = ""

\* A generated script ran into its timeout, was killed, and the failure was returned.
C7_Witness ==
    /\ pc = "done"
    /\ child.kind = "script"
    /\ child.expired
    /\ child.killed
    /\ result.returned
    /\ ~result.success
    /\ result.data.error = TimeoutText

\* C8 as stated: timeout(literal argv command) < timeout(shell-interpreted command)
\* < timeout(generated-script execution), read off the children that are launched.
C8_ScriptTimeoutLongest ==
    child.launched =>
        /\ child.kind = "argv" => child.timeout < ShellTimeout
        /\ child.kind = "shell" => LiteralTimeout < child.timeout /\ child.timeout < execution_timeout
        /\ child.kind = "script" => ShellTimeout < child.timeout

\* C8, amended: the three per-kind timeouts are strictly ordered as
\* timeout(generated-script execution) < timeout(literal argv command)
\* < timeout(shell-interpreted command).
C8_ScriptTimeoutShortest ==
    child.launched =>
        /\ child.kind = "script" => child.timeout < LiteralTimeout
        /\ child.kind = "argv" => execution_timeout < child.timeout /\ child.timeout < ShellTimeout
        /\ child.kind = "shell" => LiteralTimeout < child.timeout

\* A generated script is running under a timeout shorter than the literal one.
C8_Witness ==
    /\ pc = "py_wait"
    /\ child.launched
    /\ child.kind = "script"
    /\ child.timeout < LiteralTimeout
    /\ LiteralTimeout < ShellTimeout

\* C9: every child process (literal command, shell command, generated script) gets an
\* environment holding PATH and HOME and nothing else, and the fixed working
\* directory, which is never taken from the request.
C9_MinimalEnvironment ==
    child.launched => child.env = {"PATH", "HOME"} /\ child.cwd = HomeDir

\* C10: for a command that passed the gate, the shell runs it if and only if the raw
\* command contains "|", ">", "&&" or "||"; otherwise its whitespace-split tokens are
\* the argv.  "ls -la" runs as argv under the literal timeout, "ls | grep foo" in
\* the shell under the shell timeout.
C10_ShellIffMetacharacter ==
    (child.launched /\ child.kind \in {"argv", "shell"}) =>
        LET meta == \E m \in {"|", ">", "&&", "||"} : Contains(RawCommand, m)
        IN  /\ child.kind = "shell" <=> meta
            /\ child.kind = "shell" =>
                  child.args = <<RawCommand>> /\ child.timeout = ShellTimeout
            /\ child.kind = "argv" =>
                  child.args = Split(RawCommand) /\ child.timeout = LiteralTimeout
            /\ RawCommand = "ls -la" =>
                  child.kind = "argv" /\ child.args = <<"ls", "-la">> /\ child.timeout = 10
            /\ RawCommand = "ls | grep foo" =>
                  child.kind = "shell" /\ child.timeout = 15

\* "ls | grep foo" passed the gate and runs in the shell under the shell timeout.
C10_Witness ==
    /\ pc = "cmd_wait"
    /\ RawCommand = "ls | grep foo"
    /\ child.launched
    /\ child.kind = "shell"
    /\ child.timeout = ShellTimeout

(***************************************************************************)
(* Properties of denials and of the fallback script path                   *)
(***************************************************************************)
\* The request text, as execute and the fallback read it.
RequestText == intent.original_message

\* The script execute_with_python obtains for the request from what the generator
\* returned.
GeneratedCode == GeneratePythonCode(RequestText, generated.response)

\* C11: the command "rm -rf /" is denied, and the reason in the result message is
\* the deny-list pattern that matched ("rm -rf /"), not the allow-list.
C11_RmCitesDenyPattern ==
    (intent.command_type = "execute_command" /\ RawCommand = "rm -rf /" /\ pc # "start") =>
        /\ pc = "done"
        /\ ~child.launched
        /\ result.returned
        /\ ~result.success
        /\ result.message.kind = "blocked"
        /\ result.message.pattern = "rm -rf /"

\* The gate denied the request: empty command, base command not allow-listed, or
\* deny pattern matched.
GateDenied ==
    /\ intent.command_type = "execute_command"
    /\ IsStr(RawCommand)
    /\ \/ Split(RawCommand) = <<>>
       \/ ~InList(Split(RawCommand)[1], safe_commands)
       \/ FirstDangerous(RawCommand) # 0

\* The path guard rejected the path of the request: _normalize_path raised
\* PermissionError.
PathRejected == intent.command_type # "execute_command" /\ norm.status = "denied"

\* C12: a path guard rejection or a gate denial ends the request: once the handler
\* has acted, the one result is a failure carrying the reason, no child process was
\* started, no file was touched, the generator was not called and the result is
\* not one of the fallback script path, whatever the request text contains.
C12_DenialIsTerminal ==
    (pc # "start" /\ (GateDenied \/ PathRejected)) =>
        /\ pc = "done"
        /\ result.returned
        /\ ~result.success
        /\ result.message.kind \in {"empty", "not_allowed", "blocked", "access_denied"}
        /\ ~child.launched
        /\ touched = {}
        /\ ~generated.called
        /\ ~result.python_mode
        /\ result.python_code = ""

\* "LS -la" sent under a request text holding the keyword "calculate" was denied
\* and nothing else happened.
C12_Witness ==
    /\ pc = "done"
    /\ RawCommand = "LS -la"
    /\ HasFallbackKeyword(Lower(RequestText))
    /\ result.returned
    /\ result.message.kind = "not_allowed"
    /\ ~result.python_mode
    /\ ~generated.called

\* A rejected path under a request text holding fallback keywords.
C12_PathWitness ==
    /\ pc = "done"
    /\ PathRejected
    /\ HasFallbackKeyword(Lower(RequestText))
    /\ result.message.kind = "access_denied"
    /\ ~generated.called

C13_NoKeywordWitness ==
    /\ pc = "done"
    /\ intent.command_type = "unknown"
    /\ ~HasPythonIndicator(Lower(RequestText))
    /\ child.launched
    /\ result.success
    /\ result.python_mode

\* The handler of a known classification raised an exception that reached execute.
HandlerRaised == intent.command_type = "execute_command" /\ ~IsStr(RawCommand)

\* C14: when the handler of a known classification raised, the fallback script path
\* is entered if and only if the request text contains, case-insensitively, a word
\* of the computation / analysis vocabulary (can_handle_with_python's keyword sets:
\* count, parse, extract, compare, ... and the Azerbaijani set); otherwise the
\* result is a failure with python_mode unset and no script is generated or run.
C14_FallbackIffVocabulary ==
    (HandlerRaised /\ pc # "start") =>
        IF HasPythonIndicator(Lower(RequestText))
        THEN generated.called /\ (pc = "done" => result.python_mode)
        ELSE /\ pc = "done"
             /\ ~generated.called
             /\ ~child.launched
             /\ result.returned
             /\ ~result.success
             /\ ~result.python_mode

\* The response of the generator is degenerate: not a text (the extraction raises),
\* an empty body, or a body shorter than the minimum length.
DegenerateGeneration ==
    /\ generated.called
    /\ \/ ~IsStr(generated.response)
       \/ Degenerate(ExtractCode(generated.response))

\* C15: a degenerate generation ends the fallback in a generation failure: a failed
\* result is returned and no script, generated or substituted, is started.
C15_DegenerateGenerationFails ==
    DegenerateGeneration =>
        /\ pc = "done"
        /\ ~child.launched
        /\ result.returned
        /\ ~result.success
        /\ result.message.kind = "generation_failed"

(***************************************************************************)
(* Properties of the rate limiter                                          *)
(***************************************************************************)
\* The calls of a client among the first k calls made.
CallsOf(client_id, k) ==
    SelectSeq(SubSeq(calls, 1, k), LAMBDA call : call.client_id = client_id)

\* The admitted calls among the first k - 1 that are of the client of call k and
\* not more than one window older than call k.
AdmittedInWindow(k) ==
    {j \in 1..(k - 1) :
        /\ calls[j].client_id = calls[k].client_id
        /\ calls[j].admitted
        /\ calls[j].at >= calls[k].at - RATE_LIMIT_WINDOW_SEC}

\* C16: for every client key and every sequence of calls, a call is admitted
\* exactly when fewer than N = RATE_LIMIT_MAX_REQUESTS admitted calls of that key lie
\* in the window ending at the call. So the first N calls of an empty bucket are
\* admitted, a further call is rejected while those N are inside the window, and
\* the client is admitted again once they are more than one window old.
C16_SlidingWindow ==
    \A k \in 1..Len(calls) :
        /\ calls[k].admitted <=> Cardinality(AdmittedInWindow(k)) < RATE_LIMIT_MAX_REQUESTS
        /\ Len(CallsOf(calls[k].client_id, k)) <= RATE_LIMIT_MAX_REQUESTS => calls[k].admitted
        /\ (\A j \in 1..(k - 1) :
               calls[j].client_id = calls[k].client_id =>
                   calls[j].at < calls[k].at - RATE_LIMIT_WINDOW_SEC) => calls[k].admitted

\* One client made N admitted calls, was rejected inside the same window, and was
\* admitted again after the window had passed.
C16_Witness ==
    \E client_id \in ClientIds :
        \E mine \in {CallsOf(client_id, Len(calls))} :
            /\ Len(mine) >= RATE_LIMIT_MAX_REQUESTS + 2
            /\ \A i \in 1..RATE_LIMIT_MAX_REQUESTS : mine[i].admitted
            /\ ~mine[RATE_LIMIT_MAX_REQUESTS + 1].admitted
            /\ mine[RATE_LIMIT_MAX_REQUESTS + 1].at - mine[1].at <= RATE_LIMIT_WINDOW_SEC
            /\ mine[RATE_LIMIT_MAX_REQUESTS + 2].admitted
            /\ mine[RATE_LIMIT_MAX_REQUESTS + 2].at
                   > mine[RATE_LIMIT_MAX_REQUESTS].at + RATE_LIMIT_WINDOW_SEC

\* The time of the last call of a client.
LastCallAt(client_id) ==
    CallsOf(client_id, Len(calls))[Len(CallsOf(client_id, Len(calls)))].at

\* The times of the admitted calls of a client that were not older than the window
\* at its last call, in the order of the calls.
RECURSIVE Times(_)
Times(cs) == IF cs = <<>> THEN <<>> ELSE <<Head(cs).at>> \o Times(Tail(cs))

AdmittedSinceWindow(client_id, last_at) ==
    Times(SelectSeq(CallsOf(client_id, Len(calls)),
                    LAMBDA call : call.admitted /\ call.at >= last_at - RATE_LIMIT_WINDOW_SEC))

\* C17: in every reachable state the bucket of each client is a non-decreasing
\* sequence of at most RATE_LIMIT_MAX_REQUESTS timestamps, none older than the
\* window at the client's last call; it holds exactly the times of that client's
\* admitted calls (a rejected call adds none, a call of another client changes
\* nothing), and a client that made no call has no bucket.
C17_BucketInvariant ==
    /\ DOMAIN rate_limit_buckets = {calls[k].client_id : k \in 1..Len(calls)}
    /\ \A client_id \in DOMAIN rate_limit_buckets :
          \E dq \in {rate_limit_buckets[client_id]} :
              /\ Len(dq) <= RATE_LIMIT_MAX_REQUESTS
              /\ \A i \in 1..(Len(dq) - 1) : dq[i] <= dq[i + 1]
              /\ \A i \in 1..Len(dq) :
                    dq[i] >= LastCallAt(client_id) - RATE_LIMIT_WINDOW_SEC
              /\ dq = AdmittedSinceWindow(client_id, LastCallAt(client_id))

\* A client was rejected with a full bucket while another client's bucket, filled
\* earlier, still held a timestamp older than the window.
C17_Witness ==
    /\ calls # <<>>
    /\ ~calls[Len(calls)].admitted
    /\ Len(rate_limit_buckets[calls[Len(calls)].client_id]) = RATE_LIMIT_MAX_REQUESTS
    /\ \E other \in DOMAIN rate_limit_buckets :
          /\ other # calls[Len(calls)].client_id
          /\ rate_limit_buckets[other] # <<>>
          /\ rate_limit_buckets[other][1] < now - RATE_LIMIT_WINDOW_SEC
(***************************************************************************)
(* Properties of the intent cache                                          *)
(***************************************************************************)
\* The last operation was a get of a key that had an entry.
Lookup == cache_op.op = "get" /\ cache_op.found

\* The lookup came more than ttl after the last set of its key.
LookupExpired == Lookup /\ cache_op.at - set_at[cache_op.key] > ttl

\* C19: a lookup more than ttl after the insertion of the entry is a miss and
\* removes the entry; a lookup within ttl of the insertion returns the stored
\* value and keeps the entry; every entry carries the time and the value of the
\* last set of its key, so a lookup never extends its lifetime.
C19_LookupHonoursTTL ==
    /\ \A i \in 1..Len(store) :
           /\ store[i].ts = set_at[store[i].key]
           /\ store[i].value = ParsedIntent(store[i].key, set_at[store[i].key])
    /\ LookupExpired =>
           /\ ~cache_op.hit
           /\ cache_op.value = None
           /\ cache_op.key \notin KeysOf(store)
    /\ (Lookup /\ ~LookupExpired) =>
           /\ cache_op.hit
           /\ cache_op.value = ParsedIntent(cache_op.key, set_at[cache_op.key])
           /\ cache_op.key \in KeysOf(store)
    /\ (cache_op.op = "get" /\ ~cache_op.found) => ~cache_op.hit

\* An entry that was read successfully is looked up again ttl + 1 after its
\* insertion: the lookup misses and the entry is gone.
C19_Witness ==
    /\ LookupExpired
    /\ cache_op.at = set_at[cache_op.key] + ttl + 1
    /\ cache_op.last_read = cache_op.key
    /\ ~cache_op.hit
    /\ cache_op.key \notin KeysOf(store)

\* A lookup exactly ttl after the insertion still returns the value.
C19_BoundaryWitness ==
    /\ Lookup
    /\ cache_op.at = set_at[cache_op.key] + ttl
    /\ cache_op.hit

\* Position of the key in the order of last successful use.
Pos(order, key) == Min({i \in 1..Len(order) : order[i] = key})

\* The last operation was a set that evicted an entry.
Evicting == cache_op.op = "set" /\ cache_op.evicted # {}

\* The eviction took exactly one entry, of a new key into a full store, and the
\* entry it took is the one whose last successful get or set is the oldest.
EvictedLeastRecentlyUsed ==
    /\ Cardinality(cache_op.evicted) = 1
    /\ ~cache_op.found
    /\ Len(store) = max_size
    /\ \A e \in cache_op.evicted : \A k \in KeysOf(store) :
           Pos(recency, e) < Pos(recency, k)

\* C20 as stated: the store never holds more than max_size entries; an insertion
\* beyond capacity evicts exactly one entry, the least recently used one, never
\* the entry just inserted and never the entry most recently read.
C20_NeverEvictsLastRead ==
    /\ Len(store) <= max_size
    /\ cache_op.op = "set" => cache_op.key \in KeysOf(store)
    /\ Evicting =>
           /\ EvictedLeastRecentlyUsed
           /\ cache_op.key \notin cache_op.evicted
           /\ cache_op.last_read \notin cache_op.evicted

\* C20 amended: the store never holds more than max_size entries; an insertion
\* beyond capacity evicts exactly one entry, the least recently used one, never
\* the entry just inserted and never the entry used (read or written) most
\* recently before the insertion.
C20_EvictsLeastRecentlyUsed ==
    /\ Len(store) <= max_size
    /\ cache_op.op = "set" => cache_op.key \in KeysOf(store)
    /\ Evicting =>
           /\ EvictedLeastRecentlyUsed
           /\ cache_op.key \notin cache_op.evicted
           /\ \A e \in cache_op.evicted :
                  \E k \in KeysOf(store) \ {cache_op.key} : Pos(recency, e) < Pos(recency, k)

\* An insertion into a full store evicts an entry while the entry most recently
\* read stays.
C20_Witness ==
    /\ Evicting
    /\ Len(store) = max_size
    /\ cache_op.last_read \in KeysOf(store) \ {cache_op.key}

\* An insertion into a full store evicts the entry most recently read.
C20_LastReadEvicted ==
    /\ Evicting
    /\ cache_op.last_read \in cache_op.evicted

(***************************************************************************)
(* Properties of the request entry points                                  *)
(***************************************************************************)
\* The request being served, or served last, was rejected by the limiter.
RejectedRequest == request.pc # "idle" /\ ~request.admitted

\* C18: on every entry point the rate-limit check comes first: every step that
\* leaves a rejected request as the current one (its arrival included) leaves the
\* intent cache as it was, starts no parser or generator call for it, makes no
\* CommandExecutor.execute call and starts no child process; the request is over.
C18_RejectedDoesNoWork ==
    [][RejectedRequest' =>
          /\ UNCHANGED cache_vars
          /\ UNCHANGED executor_vars
          /\ request'.work = {}
          /\ request'.pc = "done"
          /\ pc' = "idle"
          /\ ~child'.launched]_vars

\* A request is rejected on /api/chat/stream/v2 after admitted requests filled the
\* bucket, stored an intent and had it executed.
C18_Witness ==
    /\ RejectedRequest
    /\ request.endpoint = "streamv2"
    /\ request.response = TooManyRequests("streamv2")
    /\ store # <<>>
    /\ cache_op.op = "get"
    /\ cache_op.hit
    /\ Len(rate_limit_buckets[RateKey("streamv2", "10.0.0.1")]) = RATE_LIMIT_MAX_REQUESTS

\* A request is rejected on /api/chat and answered with status 500.
C18_ChatWitness ==
    /\ RejectedRequest
    /\ request.endpoint = "chat"
    /\ request.response.status = 500

(***************************************************************************)
(* Properties of _try_python_fallback                                      *)
(***************************************************************************)
\* _try_python_fallback was called: the handler raised and the request text holds
\* a keyword of the except branch of execute.
FallbackTried == HandlerRaised /\ HasFallbackKeyword(Lower(RequestText)) /\ pc # "start"

C30_NoScriptWitness ==
    /\ FallbackTried
    /\ pc = "done"
    /\ ~child.launched
    /\ result.python_mode

\* The command of the request passed the gate and its child was started.
PassedGate ==
    /\ intent.command_type = "execute_command"
    /\ IsStr(RawCommand)
    /\ Verdict(RawCommand) = "pass"

\* C25: when a command that passed the gate fails in its child (timeout or exit
\* code other than 0) and the request text is eligible for the fallback, the
\* request is served by the generated-script path: the generator is called and
\* the result returned is one of python mode.
C25_FailedCommandFallsBack ==
    (/\ PassedGate
     /\ pc = "done"
     /\ child.launched
     /\ HasFallbackKeyword(Lower(RequestText))
     /\ HasPythonIndicator(Lower(RequestText))) =>
        (result.success \/ (generated.called /\ result.python_mode))

(***************************************************************************)
(* Properties of CommandExecutor.execute as a total function               *)
(***************************************************************************)
\* C23: for every intent, ill-typed parameters and paths that are neither a file
\* nor a directory included, execute returns a CommandResult: whenever execute has
\* finished there is a result value, and a result that is not a success carries a
\* message.
C23_ExecuteReturnsResult ==
    pc = "done" =>
        /\ result.returned
        /\ (~result.success => result.message.kind # "")

\* execute has finished and its caller holds None.
C23_NoneReturned == pc = "done" /\ ~result.returned

(***************************************************************************)
(* Termination of execute                                                  *)
(***************************************************************************)
\* What the scheduler does for a call that waits: a timeout that is due expires, and
\* the waiting call then kills its child and returns. When a child exits by itself
\* and whether another process ever opens a named pipe is up to the environment.
Timeouts ==
    \/ TimeoutExpires
    \/ CommandTimeout
    \/ PythonTimeout

FairSpec == Spec /\ WF_vars(Timeouts)

\* execute is inside a handler: it waits for a child or in a system call.
Waiting == pc \in {"cmd_wait", "py_wait", "blocked"}

\* C24: every request eventually produces a response: under fairness of the
\* scheduler no call of execute waits forever, every wait is followed by its return.
C24_ExecuteTerminates == Waiting ~> (pc = "done")

\* The waits on a child process do end: a command or script child that is waited
\* for is followed by the return of execute.
C24_ChildWaitsEnd == (pc \in {"cmd_wait", "py_wait"}) ~> (pc = "done")

\* The handler is inside open() of the named pipe.
C24_BlockedInOpen == pc = "blocked" /\ ~result.returned

(***************************************************************************)
(* Programs of a shell-interpreted command                                 *)
(***************************************************************************)
\* The stages /bin/sh runs for a command line: the texts between the operators
\* "&&", "||" and "|".
Stages(command) ==
    {stage \in UNION {{SplitOn(part, "|")[i] : i \in 1..Len(SplitOn(part, "|"))} :
                        part \in {SplitOn(command, "&&")[j] :
                                     j \in 1..Len(SplitOn(command, "&&"))}} :
        Split(stage) # <<>>}

\* The program each stage starts: its first word.
StagePrograms(command) == {Split(stage)[1] : stage \in Stages(command)}

\* C28: every program _execute_command causes to run is allow-listed: for a child
\* started in shell-interpreted mode the program of every stage of the pipeline or
\* chain is in safe_commands, and for an argv child the program is.
C28_EveryStageAllowListed ==
    pc = "cmd_wait" =>
        IF child.kind = "shell"
        THEN \A program \in StagePrograms(child.args[1]) : InList(program, safe_commands)
        ELSE InList(child.args[1], safe_commands)

\* A shell child whose first program is allow-listed and whose later stage is not.
C28_UnlistedStageRuns ==
    /\ pc = "cmd_wait"
    /\ child.kind = "shell"
    /\ InList(Split(child.args[1])[1], safe_commands)
    /\ \E program \in StagePrograms(child.args[1]) : ~InList(program, safe_commands)

(***************************************************************************)
(* The answer to a rejected request                                        *)
(***************************************************************************)
\* C27: a request to /api/chat or /api/generate that the limiter rejects is
\* answered with the rejection itself, HTTP status 429.
C27_RejectionReaches429 ==
    (/\ request.pc = "done"
     /\ ~request.admitted
     /\ request.endpoint \in {"chat", "gen"}) =>
        request.response.status = 429

\* A rejected /api/generate request is answered with status 500.
C27_RejectedGenerateGets500 ==
    /\ request.pc = "done"
    /\ ~request.admitted
    /\ request.endpoint = "gen"
    /\ request.response.status = 500

(***************************************************************************)
(* Properties of concurrently handled requests                             *)
(***************************************************************************)
\* C21: for requests with the same cache key issued within ttl of one another the
\* parser is invoked at most once, unless the entry was evicted by capacity in
\* between: of two parser invocations for one key not more than ttl apart, the
\* second follows an eviction of that key. A request that arrives while the parse
\* of the first is pending is included.
C21_ParsedOncePerKey ==
    \A i \in 1..Len(trace) : \A j \in (i + 1)..Len(trace) :
        (/\ trace[i].ev = "parse"
         /\ trace[j].ev = "parse"
         /\ trace[i].key = trace[j].key
         /\ trace[j].at - trace[i].at <= ttl) =>
            \E k \in (i + 1)..(j - 1) : trace[k].ev = "evict" /\ trace[k].key = trace[i].key

\* Two tasks wait for the parser's answer to the same key.
C21_TwoParsesPending ==
    \E t \in Tasks : \E u \in Tasks \ {t} :
        /\ tasks[t].pc = "parsing"
        /\ tasks[u].pc = "parsing"
        /\ CacheKey(tasks[t].mode, tasks[t].message) = CacheKey(tasks[u].mode, tasks[u].message)

\* The keys of the store in its order.
RECURSIVE KeySeq(_)
KeySeq(st) == IF st = <<>> THEN <<>> ELSE <<Head(st).key>> \o KeySeq(Tail(st))

\* A task is suspended at an await: other tasks run meanwhile.
Suspended(t) == tasks[t].pc \in {"parsing", "generating", "py_wait"}

\* C22: under every interleaving of the requests the bucket table and the cache
\* are intact: each bucket is time-ordered, has at most RATE_LIMIT_MAX_REQUESTS
\* timestamps and holds exactly the admitted calls of its window (none is lost);
\* the store has at most max_size entries, one per key, in the order of the most
\* recent successful get or set of each key, each with the time and value of the
\* last set of its key; and an inserted entry is missing only after its expiry or
\* its eviction.
C22_TablesIntact ==
    /\ \A client_id \in DOMAIN rate_limit_buckets :
          \E dq \in {rate_limit_buckets[client_id]} :
              /\ Len(dq) <= RATE_LIMIT_MAX_REQUESTS
              /\ \A i \in 1..(Len(dq) - 1) : dq[i] <= dq[i + 1]
              /\ dq = AdmittedSinceWindow(client_id, LastCallAt(client_id))
    /\ DOMAIN rate_limit_buckets = {calls[k].client_id : k \in 1..Len(calls)}
    /\ Len(store) <= max_size
    /\ \A i \in 1..Len(store) : \A j \in (i + 1)..Len(store) : store[i].key # store[j].key
    /\ KeySeq(store) = SelectSeq(recency, LAMBDA k : k \in KeysOf(store))
    /\ \A i \in 1..Len(store) :
           /\ store[i].ts = set_at[store[i].key]
           /\ store[i].value = ParsedIntent(store[i].key, set_at[store[i].key])
    /\ \A key \in DOMAIN set_at \ KeysOf(store) :
           \E k \in 1..Len(trace) :
               /\ trace[k].ev \in {"expire", "evict"}
               /\ trace[k].key = key
               /\ trace[k].at >= set_at[key]

\* Two requests with the same key were parsed concurrently and the second one has
\* just stored its intent over the entry of the first, while another request is
\* suspended and the bucket of the client is full.
C22_Witness ==
    /\ cache_op.op = "set"
    /\ cache_op.found
    /\ \E i \in 1..Len(trace) : \E j \in (i + 1)..Len(trace) :
           /\ trace[i].ev = "parse"
           /\ trace[j].ev = "parse"
           /\ trace[i].key = cache_op.key
           /\ trace[j].key = cache_op.key
           /\ trace[j].at <= set_at[cache_op.key]
    /\ \E t \in Tasks : Suspended(t)
    /\ \E client_id \in DOMAIN rate_limit_buckets :
           Len(rate_limit_buckets[client_id]) = RATE_LIMIT_MAX_REQUESTS

\* An insertion evicted an entry while another request was suspended.
C22_EvictionWitness ==
    /\ Evicting
    /\ \E t \in Tasks : Suspended(t)

\* C26: executions of unrelated requests overlap: while one request waits for its
\* child process, a command or a generated script, no other request is kept from
\* running.
C26_ChildWaitHoldsNobody ==
    \A t \in Tasks : \A u \in Tasks \ {t} :
        tasks[t].pc \in {"cmd_wait", "py_wait"} => CanRun(u)

\* A request whose parser answered cannot go on because the event loop is inside
\* the subprocess.run of another request.
C26_HeldUpByCommand ==
    \E t \in Tasks : \E u \in Tasks \ {t} :
        /\ tasks[t].pc = "cmd_wait"
        /\ tasks[u].pc \in {"parsing", "generating", "py_wait"}
        /\ ~CanRun(u)

\* Two generated scripts run at the same time.
C26_ScriptsOverlap ==
    \E t \in Tasks : \E u \in Tasks \ {t} :
        tasks[t].pc = "py_wait" /\ tasks[u].pc = "py_wait"

\* C29: the content generator a request waits for, in a handler or on the
\* generated-script path, is the service of the request's own mode.
C29_GeneratorOfOwnMode ==
    \A t \in Tasks :
        tasks[t].pc = "generating" => tasks[t].generator = ServiceOf(tasks[t].mode)

\* A request in general mode waits for a script from the Ollama service.
C29_GeneralUsesOllama ==
    \E t \in Tasks :
        /\ tasks[t].pc = "generating"
        /\ tasks[t].mode = "general"
        /\ tasks[t].generator = "ollama_service"
====
